---- MODULE Spec2Model ----
(***************************************************************************)
(* A model of agent-sync: the sandbox, the content cache, the local and   *)
(* git resolvers, the lockfile and the sync / update / prune operations   *)
(* of the engine behind the public Client.                                 *)
(*                                                                         *)
(* Paths are sequences of components.  An absolute path starts at the     *)
(* filesystem root << >>.  File contents are sequences of tokens, and the  *)
(* SHA-256 of a content c is the record [sha |-> c] (an injective hash).  *)
(***************************************************************************)
EXTENDS Integers, Sequences, FiniteSets, TLC

VARIABLES
    fs,         \* the filesystem: absolute path -> node
    lockfile,   \* the lockfile on disk: [state, version, sources]
    cache,      \* the object store of the cache: hash -> stored bytes
    cfg,        \* the configuration file, loaded by every Client call
    upstream,   \* source name -> what the source currently serves
    call,       \* the Client call in progress, or the last one finished
    cancelled,  \* the cancellation token of the call in progress
    pre,        \* the filesystem and the lockfile when the call started
    hist,       \* the calls finished so far, oldest first
    budget,     \* the number of Client calls this run makes
    cres        \* the last direct cache call and its result

vars == <<fs, lockfile, cache, cfg, upstream, call, cancelled, pre, hist,
          budget, cres>>

-----------------------------------------------------------------------------
(* Bounds *)

\* Number of Client calls in one behaviour.
MaxCalls == 2

\* Symbolic links followed while resolving one path (ELOOP beyond this).
MaxLinkDepth == 3

-----------------------------------------------------------------------------
(* Sequences and paths *)

SeqToSet(s) == {s[i] : i \in 1..Len(s)}

Last(s) == s[Len(s)]

Front(s) == SubSeq(s, 1, Len(s) - 1)

IsPrefix(p, q) == Len(p) <= Len(q) /\ SubSeq(q, 1, Len(p)) = p

\* All orderings of a finite set, as sequences without repetition.
RECURSIVE Perms(_)
Perms(S) ==
    IF S = {} THEN {<<>>}
    ELSE UNION {{<<x>> \o p : p \in Perms(S \ {x})} : x \in S}

\* filepath.Clean of an absolute path: ".." drops the component before it
\* and is itself dropped at the root.
RECURSIVE CleanAbsFrom(_, _)
CleanAbsFrom(done, rest) ==
    IF rest = <<>> THEN done
    ELSE IF Head(rest) = ".."
         THEN CleanAbsFrom(IF done = <<>> THEN <<>> ELSE Front(done), Tail(rest))
         ELSE CleanAbsFrom(Append(done, Head(rest)), Tail(rest))

CleanAbs(p) == CleanAbsFrom(<<>>, p)

\* filepath.Clean of a relative path: ".." drops the component before it
\* unless that is itself "..", and leading ".." components stay.
RECURSIVE CleanRelFrom(_, _)
CleanRelFrom(done, rest) ==
    IF rest = <<>> THEN done
    ELSE IF Head(rest) = ".." /\ done # <<>> /\ Last(done) # ".."
         THEN CleanRelFrom(Front(done), Tail(rest))
         ELSE CleanRelFrom(Append(done, Head(rest)), Tail(rest))

\* filepath.Join of two relative paths.
JoinRel(a, b) == CleanRelFrom(<<>>, a \o b)

\* filepath.Join of an absolute and a relative path.
JoinAbs(a, b) == CleanAbs(a \o b)

\* filepath.Dir of an absolute path; the root is its own parent.
Dir(p) == IF p = <<>> THEN <<>> ELSE Front(p)

\* filepath.Base of a relative path.
Base(p) == IF p = <<>> THEN "." ELSE Last(p)

-----------------------------------------------------------------------------
(* The filesystem *)

ProjectRoot == <<"root">>

DirNode == [k |-> "dir", c |-> <<>>, to |-> <<>>]
FileNode(c) == [k |-> "file", c |-> c, to |-> <<>>]
LinkNode(t) == [k |-> "link", c |-> <<>>, to |-> t]

Exists(f, p) == p \in DOMAIN f

FsPut(f, p, n) == [q \in (DOMAIN f) \cup {p} |-> IF q = p THEN n ELSE f[q]]

FsDel(f, p) == [q \in (DOMAIN f) \ {p} |-> f[q]]

HasChildren(f, p) == \E q \in DOMAIN f : Len(q) = Len(p) + 1 /\ IsPrefix(p, q)

\* filepath.EvalSymlinks: walk the components, following every link;
\* fails on a missing component, on a file used as a directory and on
\* too many links.
RECURSIVE EvalFrom(_, _, _, _)
EvalFrom(f, done, rest, fuel) ==
    IF rest = <<>> THEN [ok |-> TRUE, path |-> done]
    ELSE LET p == Append(done, Head(rest)) IN
         IF ~Exists(f, p) THEN [ok |-> FALSE, path |-> <<>>]
         ELSE IF f[p].k = "link"
              THEN IF fuel = 0 THEN [ok |-> FALSE, path |-> <<>>]
                   ELSE EvalFrom(f, <<>>, f[p].to \o Tail(rest), fuel - 1)
              ELSE IF f[p].k = "file" /\ Tail(rest) # <<>>
                   THEN [ok |-> FALSE, path |-> <<>>]
                   ELSE EvalFrom(f, p, Tail(rest), fuel)

EvalSymlinks(f, p) == EvalFrom(f, <<>>, p, MaxLinkDepth)

\* os.ReadFile: follows links; [ok, c].
ReadFile(f, p) ==
    LET r == EvalSymlinks(f, p) IN
    IF r.ok /\ f[r.path].k = "file"
    THEN [ok |-> TRUE, c |-> f[r.path].c]
    ELSE [ok |-> FALSE, c |-> <<>>]

\* The kind of error os.ReadFile(p) ends with: "none", "notexist" for a
\* missing component (the only case os.IsNotExist accepts), "other" for a
\* file used as a directory, too many links, or a directory read as a file.
RECURSIVE WalkErr(_, _, _, _)
WalkErr(f, done, rest, fuel) ==
    IF rest = <<>> THEN "none"
    ELSE LET p == Append(done, Head(rest)) IN
         IF ~Exists(f, p) THEN "notexist"
         ELSE IF f[p].k = "link"
              THEN IF fuel = 0 THEN "other"
                   ELSE WalkErr(f, <<>>, f[p].to \o Tail(rest), fuel - 1)
              ELSE IF f[p].k = "file" /\ Tail(rest) # <<>>
                   THEN "other"
                   ELSE WalkErr(f, p, Tail(rest), fuel)

ReadFileErr(f, p) ==
    IF ReadFile(f, p).ok THEN "none"
    ELSE IF WalkErr(f, <<>>, p, MaxLinkDepth) = "none" THEN "other"
         ELSE WalkErr(f, <<>>, p, MaxLinkDepth)

\* os.Stat(p) succeeded and reports a directory.
IsDirAt(f, p) ==
    LET r == EvalSymlinks(f, p) IN r.ok /\ f[r.path].k = "dir"

\* os.Mkdir: creates the last component in the real parent directory;
\* fails when the name is taken (also by a dangling link).
Mkdir(f, p) ==
    LET par == EvalSymlinks(f, Dir(p)) IN
    IF p # <<>> /\ par.ok /\ f[par.path].k = "dir"
       /\ ~Exists(f, Append(par.path, Last(p)))
    THEN [ok |-> TRUE, fs |-> FsPut(f, Append(par.path, Last(p)), DirNode)]
    ELSE [ok |-> FALSE, fs |-> f]

\* os.MkdirAll: nothing to do for a directory, an error for anything else
\* that exists, otherwise the parents first and then the directory.
RECURSIVE MkdirAll(_, _)
MkdirAll(f, p) ==
    LET st == EvalSymlinks(f, p) IN
    IF st.ok
    THEN [ok |-> f[st.path].k = "dir", fs |-> f]
    ELSE IF p = <<>> THEN [ok |-> FALSE, fs |-> f]
         ELSE LET up == MkdirAll(f, Dir(p)) IN
              IF ~up.ok THEN up ELSE Mkdir(up.fs, p)

\* os.Rename of a fresh temporary file of directory Dir(p) onto p: the
\* directory part is followed through links, the last component is
\* replaced as it is (a link is replaced, not followed); a directory in
\* the way makes it fail.
RenameOnto(f, p, c) ==
    LET par == EvalSymlinks(f, Dir(p)) IN
    IF p # <<>> /\ par.ok /\ f[par.path].k = "dir"
    THEN LET q == Append(par.path, Last(p)) IN
         IF Exists(f, q) /\ f[q].k = "dir"
         THEN [ok |-> FALSE, fs |-> f]
         ELSE [ok |-> TRUE, fs |-> FsPut(f, q, FileNode(c))]
    ELSE [ok |-> FALSE, fs |-> f]

\* os.Remove: removes a file, a link or an empty directory.
OsRemove(f, p) ==
    LET par == EvalSymlinks(f, Dir(p)) IN
    IF p # <<>> /\ par.ok /\ Exists(f, Append(par.path, Last(p)))
       /\ ~HasChildren(f, Append(par.path, Last(p)))
    THEN [ok |-> TRUE, fs |-> FsDel(f, Append(par.path, Last(p)))]
    ELSE [ok |-> FALSE, fs |-> f]

-----------------------------------------------------------------------------
(* The sandbox *)

\* Resolve the longest existing prefix through links and append the rest.
RECURSIVE resolveExistingPath(_, _)
resolveExistingPath(f, path) ==
    LET r == EvalSymlinks(f, path) IN
    IF r.ok THEN r.path
    ELSE IF Dir(path) = path THEN path
         ELSE Append(resolveExistingPath(f, Dir(path)), Last(path))

\* The containment test of ValidatePath on the resolved path.
WithinRoot(realRoot, resolved) ==
    resolved = realRoot \/ (IsPrefix(realRoot, resolved) /\ Len(resolved) > Len(realRoot))

\* A containment test on the joined path, without resolving links.
ValidatePathLexical(f, projectRoot, targetPath) ==
    LET realRoot == EvalSymlinks(f, projectRoot) IN
    IF ~realRoot.ok THEN [ok |-> FALSE, path |-> <<>>]
    ELSE LET candidate == JoinAbs(realRoot.path, targetPath) IN
         IF WithinRoot(realRoot.path, candidate)
         THEN [ok |-> TRUE, path |-> candidate]
         ELSE [ok |-> FALSE, path |-> <<>>]

\* A containment test on the joined path that then returns the resolved
\* path.
ValidatePathCheckFirst(f, projectRoot, targetPath) ==
    LET realRoot == EvalSymlinks(f, projectRoot) IN
    IF ~realRoot.ok THEN [ok |-> FALSE, path |-> <<>>]
    ELSE LET candidate == JoinAbs(realRoot.path, targetPath) IN
         IF WithinRoot(realRoot.path, candidate)
         THEN [ok |-> TRUE, path |-> resolveExistingPath(f, candidate)]
         ELSE [ok |-> FALSE, path |-> <<>>]

\* ValidatePath: the joined path, resolved through the links of its
\* longest existing prefix, must be the project root or lie below it.
ValidatePath(f, projectRoot, targetPath) ==
    LET realRoot == EvalSymlinks(f, projectRoot) IN
    IF ~realRoot.ok THEN [ok |-> FALSE, path |-> <<>>]
    ELSE LET candidate == JoinAbs(realRoot.path, targetPath)
             resolved == resolveExistingPath(f, candidate)
         IN  IF WithinRoot(realRoot.path, resolved)
             THEN [ok |-> TRUE, path |-> resolved]
             ELSE [ok |-> FALSE, path |-> <<>>]

\* SafeWrite: validate the path and its parent, create the parents, write
\* a temporary file next to the destination and rename it over it.  The
\* temporary file is removed on every failure, so a failed call leaves at
\* most new directories behind.
SafeWrite(f, projectRoot, relPath, content) ==
    LET v == ValidatePath(f, projectRoot, relPath) IN
    IF ~v.ok THEN [ok |-> FALSE, fs |-> f]
    ELSE IF ~ValidatePath(f, projectRoot, Dir(relPath)).ok
         THEN [ok |-> FALSE, fs |-> f]
         ELSE LET md == MkdirAll(f, Dir(v.path)) IN
              IF ~md.ok THEN md
              ELSE LET rn == RenameOnto(md.fs, v.path, content) IN
                   IF rn.ok THEN rn ELSE [ok |-> FALSE, fs |-> md.fs]

SafeRemove(f, projectRoot, relPath) ==
    LET v == ValidatePath(f, projectRoot, relPath) IN
    IF ~v.ok THEN [ok |-> FALSE, fs |-> f]
    ELSE OsRemove(f, v.path)

-----------------------------------------------------------------------------
(* Hashes and the content cache *)

\* SHA-256 of content, hex encoded.
computeHash(c) == [sha |-> c]

\* A Get that returns what is stored without hashing it.
CacheGetTrusting(ch, h) ==
    IF h \notin DOMAIN ch THEN [found |-> FALSE, c |-> <<>>, cache |-> ch]
    ELSE [found |-> TRUE, c |-> ch[h], cache |-> ch]

\* Cache.Get: a miss when there is no entry; an entry whose bytes do not
\* hash to the key is removed and reported as a miss.
CacheGet(ch, h) ==
    IF h \notin DOMAIN ch THEN [found |-> FALSE, c |-> <<>>, cache |-> ch]
    ELSE IF computeHash(ch[h]) # h
         THEN [found |-> FALSE, c |-> <<>>,
               cache |-> [k \in (DOMAIN ch) \ {h} |-> ch[k]]]
         ELSE [found |-> TRUE, c |-> ch[h], cache |-> ch]

\* Cache.Put: refuses bytes that do not hash to the key, keeps an entry
\* that is already there, otherwise stores the bytes.
CachePut(ch, h, c) ==
    IF computeHash(c) # h THEN [ok |-> FALSE, cache |-> ch]
    ELSE IF h \in DOMAIN ch THEN [ok |-> TRUE, cache |-> ch]
         ELSE [ok |-> TRUE,
               cache |-> [k \in (DOMAIN ch) \cup {h} |-> IF k = h THEN c ELSE ch[k]]]

\* The loop "for _, f := range fetched { _ = Cache.Put(f.SHA256, f.Content) }";
\* fetched maps a relative path to [c, sha].
RECURSIVE PutFetched(_, _, _)
PutFetched(ch, fetched, todo) ==
    IF todo = {} THEN ch
    ELSE LET r == CHOOSE x \in todo : TRUE IN
         PutFetched(CachePut(ch, fetched[r].sha, fetched[r].c).cache,
                    fetched, todo \ {r})

-----------------------------------------------------------------------------
(* Source resolvers *)

\* Registry.Get: the resolvers the Client registers.
RegistryHas(type) == type \in {"git", "url", "local"}

\* LocalResolver.Fetch: returns the expected structure, one entry per
\* locked file with the locked hash, and no content.
LocalFetch(resolved) ==
    IF resolved.path = <<>> THEN [ok |-> FALSE, files |-> <<>>]
    ELSE [ok |-> TRUE,
          files |-> [r \in DOMAIN resolved.files |->
                        [c |-> <<>>, sha |-> resolved.files[r]]]]

\* GitResolver.Fetch: clones at the locked commit, reads every locked file
\* and compares its hash; up is what the repository serves.
GitFetch(resolved, up, ctxDone) ==
    IF resolved.repo = "" \/ ctxDone \/ ~up.ok
       \/ resolved.commit \notin DOMAIN up.commits
    THEN [ok |-> FALSE, files |-> <<>>]
    ELSE LET tree == up.commits[resolved.commit] IN
         IF \A r \in DOMAIN resolved.files :
                r \in DOMAIN tree /\ computeHash(tree[r]) = resolved.files[r]
         THEN [ok |-> TRUE,
               files |-> [r \in DOMAIN resolved.files |->
                             [c |-> tree[r], sha |-> computeHash(tree[r])]]]
         ELSE [ok |-> FALSE, files |-> <<>>]

ResolverFetch(resolved, up, ctxDone) ==
    IF resolved.type = "local" THEN LocalFetch(resolved)
    ELSE GitFetch(resolved, up, ctxDone)

\* LocalResolver.Resolve: hashes the file, or every file of the directory;
\* the directory walk stops at a cancelled context.
LocalResolve(src, up, ctxDone) ==
    IF src.path = <<>> \/ ~up.ok THEN [ok |-> FALSE]
    ELSE IF up.isDir /\ ctxDone THEN [ok |-> FALSE]
    ELSE IF DOMAIN up.commits[up.head] = {} THEN [ok |-> FALSE]
    ELSE [ok |-> TRUE, name |-> src.name, type |-> "local", repo |-> "",
          path |-> src.path, commit |-> "",
          files |-> [r \in DOMAIN up.commits[up.head] |->
                        computeHash(up.commits[up.head][r])]]

\* GitResolver.Resolve: clones the ref and hashes the files of the working
\* tree that lie under one of the paths of the source (all of them when
\* the source names no path).
GitResolve(src, up, ctxDone) ==
    IF src.repo = "" \/ src.ref = "" \/ ctxDone \/ ~up.ok THEN [ok |-> FALSE]
    ELSE [ok |-> TRUE, name |-> src.name, type |-> "git", repo |-> src.repo,
          path |-> <<>>, commit |-> up.head,
          files |-> [r \in {q \in DOMAIN up.commits[up.head] :
                               \/ src.paths = <<>>
                               \/ \E i \in 1..Len(src.paths) : IsPrefix(src.paths[i], q)}
                       |-> computeHash(up.commits[up.head][r])]]

ResolverResolve(src, up, ctxDone) ==
    IF src.type = "local" THEN LocalResolve(src, up, ctxDone)
    ELSE GitResolve(src, up, ctxDone)

\* resolvedToLocked: the lockfile entry of a resolved source.
resolvedToLocked(src, resolved) ==
    [name |-> src.name, type |-> src.type, repo |-> src.repo,
     path |-> resolved.path, commit |-> resolved.commit,
     files |-> resolved.files, status |-> "ok"]

-----------------------------------------------------------------------------
(* The tool map *)

builtinTools ==
    [t \in {"cursor", "claude-code", "copilot", "windsurf", "cline", "codex"} |->
        CASE t = "cursor" -> <<".cursor", "rules">>
          [] t = "claude-code" -> <<".claude">>
          [] t = "copilot" -> <<".github", "copilot">>
          [] t = "windsurf" -> <<".windsurf", "rules">>
          [] t = "cline" -> <<".cline", "rules">>
          [] t = "codex" -> <<".codex">>]

\* NewToolMap: the built-in definitions overlaid with the custom ones,
\* a later custom definition of a name replacing an earlier one.
RECURSIVE OverlayDefs(_, _)
OverlayDefs(defs, custom) ==
    IF custom = <<>> THEN defs
    ELSE OverlayDefs(
            [t \in (DOMAIN defs) \cup {Head(custom).name} |->
                IF t = Head(custom).name THEN Head(custom).destination ELSE defs[t]],
            Tail(custom))

NewToolMap(customDefs) == OverlayDefs(builtinTools, customDefs)

\* ToolMap.ResolveTarget: [ok, targets], one resolved target for an
\* explicit destination, else one per tool.  destination << >> is "".
ResolveTarget(tm, tgt) ==
    IF Len(tgt.tools) > 0 /\ tgt.destination # <<>>
    THEN [ok |-> FALSE, targets |-> <<>>]
    ELSE IF tgt.destination # <<>>
    THEN [ok |-> TRUE,
          targets |-> <<[source |-> tgt.source, destination |-> tgt.destination]>>]
    ELSE IF \E i \in 1..Len(tgt.tools) : tgt.tools[i] \notin DOMAIN tm
    THEN [ok |-> FALSE, targets |-> <<>>]
    ELSE [ok |-> TRUE,
          targets |-> [i \in 1..Len(tgt.tools) |->
                          [source |-> tgt.source, destination |-> tm[tgt.tools[i]]]]]

\* resolveAllTargets: the resolved targets of every source, in target
\* order; fails when one target entry fails.
RECURSIVE TargetsOf(_, _, _)
TargetsOf(tm, targets, name) ==
    IF targets = <<>> THEN <<>>
    ELSE (IF Head(targets).source = name
          THEN ResolveTarget(tm, Head(targets)).targets ELSE <<>>)
         \o TargetsOf(tm, Tail(targets), name)

resolveAllTargets(tm, c) ==
    IF \E i \in 1..Len(c.targets) : ~ResolveTarget(tm, c.targets[i]).ok
    THEN [ok |-> FALSE, map |-> <<>>]
    ELSE [ok |-> TRUE,
          map |-> [n \in {c.targets[i].source : i \in 1..Len(c.targets)} |->
                      TargetsOf(tm, c.targets, n)]]

-----------------------------------------------------------------------------
(* Transforms and overrides *)

\* The token standing for the template action {{ .v }} and the one
\* standing for a null byte.
VarRef == "{{.v}}"
NullByte == "\\0"

\* MergeVars: per-transform values win over global ones.
MergeVars(global, perTransform) ==
    [k \in (DOMAIN global) \cup (DOMAIN perTransform) |->
        IF k \in DOMAIN perTransform THEN perTransform[k] ELSE global[k]]

RECURSIVE Substitute(_, _)
Substitute(content, tvars) ==
    IF content = <<>> THEN <<>>
    ELSE (IF Head(content) = VarRef THEN <<tvars["v"]>> ELSE <<Head(content)>>)
         \o Substitute(Tail(content), tvars)

\* TemplateTransform.Apply: binary content passes through, a missing
\* variable is an error, every reference is replaced by its value.
TemplateApply(content, tvars) ==
    IF NullByte \in SeqToSet(content) THEN [ok |-> TRUE, c |-> content]
    ELSE IF VarRef \in SeqToSet(content) /\ "v" \notin DOMAIN tvars
         THEN [ok |-> FALSE, c |-> <<>>]
         ELSE [ok |-> TRUE, c |-> Substitute(content, tvars)]

\* applyTransforms: every template transform of the source, in order, over
\* every file; [ok, files].
RECURSIVE applyTransforms(_, _, _)
applyTransforms(files, transforms, globalVars) ==
    IF transforms = <<>> THEN [ok |-> TRUE, files |-> files]
    ELSE IF Head(transforms).type # "template"
    THEN applyTransforms(files, Tail(transforms), globalVars)
    ELSE LET tvars == MergeVars(globalVars, Head(transforms).vars)
             out == [r \in DOMAIN files |-> TemplateApply(files[r], tvars)]
         IN  IF \E r \in DOMAIN files : ~out[r].ok
             THEN [ok |-> FALSE, files |-> files]
             ELSE applyTransforms([r \in DOMAIN files |-> out[r].c],
                                  Tail(transforms), globalVars)

\* The transforms of one source, in configuration order.
RECURSIVE TransformsOf(_, _)
TransformsOf(transforms, name) ==
    IF transforms = <<>> THEN <<>>
    ELSE (IF Head(transforms).source = name THEN <<Head(transforms)>> ELSE <<>>)
         \o TransformsOf(Tail(transforms), name)

appendContent(original, addition) ==
    (IF Len(original) > 0 /\ Last(original) # "\n"
     THEN Append(original, "\n") ELSE original) \o addition

prependContent(original, addition) ==
    (IF Len(addition) > 0 /\ Last(addition) # "\n"
     THEN Append(addition, "\n") ELSE addition) \o original

\* OverrideProcessor.Apply on a map from file name to content: every
\* override in order; fails when its target is not in the map, when its
\* file cannot be read or when its strategy is unknown.
RECURSIVE OverrideApply(_, _, _)
OverrideApply(f, syncedFiles, overrides) ==
    IF overrides = <<>> THEN [ok |-> TRUE, files |-> syncedFiles]
    ELSE LET ov == Head(overrides)
             rd == ReadFile(f, JoinAbs(ProjectRoot, ov.file))
         IN  IF ov.target \notin DOMAIN syncedFiles \/ ~rd.ok
                \/ ov.strategy \notin {"append", "prepend", "replace"}
             THEN [ok |-> FALSE, files |-> syncedFiles]
             ELSE LET merged ==
                        CASE ov.strategy = "append" ->
                                appendContent(syncedFiles[ov.target], rd.c)
                          [] ov.strategy = "prepend" ->
                                prependContent(syncedFiles[ov.target], rd.c)
                          [] OTHER -> rd.c
                  IN  OverrideApply(f,
                          [n \in DOMAIN syncedFiles |->
                              IF n = ov.target THEN merged ELSE syncedFiles[n]],
                          Tail(overrides))

\* DetectConflicts: some destination has several sources and no override
\* targets its base name.  destinations maps a path to its set of sources.
DetectConflicts(destinations, overrides) ==
    \E d \in DOMAIN destinations :
        /\ Cardinality(destinations[d]) > 1
        /\ Base(d) \notin {overrides[i].target : i \in 1..Len(overrides)}

-----------------------------------------------------------------------------
(* Sync: collecting the file operations *)

\* The first loop of fetchSourceFiles over the locked files in the order
\* the map iteration happens to take: cache hits are kept; the first miss
\* fetches the whole source, stores what was fetched and ends the loop.
RECURSIVE FetchLoop(_, _, _, _, _, _)
FetchLoop(ls, order, files, ch, up, ctxDone) ==
    IF order = <<>> THEN [ok |-> TRUE, files |-> files, cache |-> ch]
    ELSE LET g == CacheGet(ch, ls.files[Head(order)]) IN
         IF g.found
         THEN FetchLoop(ls, Tail(order), (Head(order) :> g.c) @@ files,
                        g.cache, up, ctxDone)
         ELSE IF ~RegistryHas(ls.type)
         THEN [ok |-> FALSE, files |-> files, cache |-> g.cache]
         ELSE LET r == ResolverFetch(ls, up, ctxDone) IN
              IF ~r.ok THEN [ok |-> FALSE, files |-> files, cache |-> g.cache]
              ELSE [ok |-> TRUE,
                    files |-> [x \in (DOMAIN files) \cup (DOMAIN r.files) |->
                                  IF x \in DOMAIN r.files THEN r.files[x].c
                                  ELSE files[x]],
                    cache |-> PutFetched(g.cache, r.files, DOMAIN r.files)]

\* The second loop of fetchSourceFiles: files still missing are taken
\* from the cache when it has them.
RECURSIVE FillFromCache(_, _, _, _)
FillFromCache(ls, files, ch, todo) ==
    IF todo = {} THEN [ok |-> TRUE, files |-> files, cache |-> ch]
    ELSE LET r == CHOOSE x \in todo : TRUE
             g == CacheGet(ch, ls.files[r])
         IN  FillFromCache(ls, IF g.found THEN (r :> g.c) @@ files ELSE files,
                           g.cache, todo \ {r})

fetchSourceFiles(ls, ch, order, up, ctxDone) ==
    LET first == FetchLoop(ls, order, <<>>, ch, up, ctxDone) IN
    IF ~first.ok THEN first
    ELSE FillFromCache(ls, first.files, first.cache,
                       (DOMAIN ls.files) \ (DOMAIN first.files))

\* "for _, tgt := range targets { for relPath, content := range files":
\* every order the map iterations can take.
RECURSIVE EnumOps(_, _, _)
EnumOps(targets, files, name) ==
    IF targets = <<>> THEN {<<>>}
    ELSE {[i \in 1..Len(o) |->
              [destPath |-> JoinRel(Head(targets).destination, o[i]),
               content |-> files[o[i]], source |-> name]] \o rest :
            o \in Perms(DOMAIN files),
            rest \in EnumOps(Tail(targets), files, name)}

\* A variant in which a failed fetch also drops the operations gathered
\* from the sources before it.
SourcePlansDroppingOps(ls, acc, tmap, c, up, ctxDone) ==
    IF ls.name \notin DOMAIN tmap THEN {acc}
    ELSE UNION {
        LET fr == fetchSourceFiles(ls, acc.cache, order, up, ctxDone) IN
        IF ~fr.ok
        THEN {[acc EXCEPT !.errors = Append(@, ls.name), !.cache = fr.cache,
                          !.ops = <<>>]}
        ELSE LET tx == TransformsOf(c.transforms, ls.name)
                 tr == IF tx = <<>> THEN [ok |-> TRUE, files |-> fr.files]
                       ELSE applyTransforms(fr.files, tx, c.variables)
             IN  IF ~tr.ok
                 THEN {[acc EXCEPT !.errors = Append(@, ls.name),
                                   !.cache = fr.cache]}
                 ELSE {[acc EXCEPT !.ops = @ \o ops, !.cache = fr.cache] :
                          ops \in EnumOps(tmap[ls.name], tr.files, ls.name)}
        : order \in Perms(DOMAIN ls.files)}

\* One locked source of the loop "for _, ls := range lf.Sources": acc is
\* [ops, cache, errors] so far; the result is every acc the source can
\* lead to.
SourcePlans(ls, acc, tmap, c, up, ctxDone) ==
    IF ls.name \notin DOMAIN tmap THEN {acc}
    ELSE UNION {
        LET fr == fetchSourceFiles(ls, acc.cache, order, up, ctxDone) IN
        IF ~fr.ok
        THEN {[acc EXCEPT !.errors = Append(@, ls.name), !.cache = fr.cache]}
        ELSE LET tx == TransformsOf(c.transforms, ls.name)
                 tr == IF tx = <<>> THEN [ok |-> TRUE, files |-> fr.files]
                       ELSE applyTransforms(fr.files, tx, c.variables)
             IN  IF ~tr.ok
                 THEN {[acc EXCEPT !.errors = Append(@, ls.name),
                                   !.cache = fr.cache]}
                 ELSE {[acc EXCEPT !.ops = @ \o ops, !.cache = fr.cache] :
                          ops \in EnumOps(tmap[ls.name], tr.files, ls.name)}
        : order \in Perms(DOMAIN ls.files)}

RECURSIVE Gather(_, _, _, _, _, _)
Gather(sources, acc, tmap, c, up, ctxDone) ==
    IF sources = <<>> THEN {acc}
    ELSE UNION {Gather(Tail(sources), a, tmap, c, up, ctxDone) :
                   a \in SourcePlans(Head(sources), acc, tmap, c, up[Head(sources).name], ctxDone)}

\* The override block of Sync: the map from base name to content keeps the
\* content of the last operation with that base name, and every operation
\* then takes the content the processor returns for its base name.
ApplyOverridesToOps(f, ops, overrides) ==
    IF Len(overrides) = 0 THEN [ok |-> TRUE, ops |-> ops]
    ELSE LET names == {Base(ops[i].destPath) : i \in 1..Len(ops)}
             lastOf(n) == CHOOSE i \in 1..Len(ops) :
                              /\ Base(ops[i].destPath) = n
                              /\ \A j \in 1..Len(ops) :
                                    Base(ops[j].destPath) = n => j <= i
             filesByName == [n \in names |-> ops[lastOf(n)].content]
             applied == OverrideApply(f, filesByName, overrides)
         IN  IF ~applied.ok THEN [ok |-> FALSE, ops |-> ops]
             ELSE [ok |-> TRUE,
                   ops |-> [i \in 1..Len(ops) |->
                               [ops[i] EXCEPT
                                   !.content = applied.files[Base(ops[i].destPath)]]]]

\* The byte order of the path components the model uses.
NameOrder ==
    <<"..", ".claude", ".cline", ".codex", ".cursor", ".github", ".windsurf",
      "copilot", "ext", "f", "g", "in", "lnk", "new", "out", "ovr", "root", "rules">>

NameRank(n) == CHOOSE i \in 1..Len(NameOrder) : NameOrder[i] = n

\* p < q as strings: the first differing component decides, a proper
\* prefix comes first.
RECURSIVE PathLess(_, _)
PathLess(p, q) ==
    IF q = <<>> THEN FALSE
    ELSE IF p = <<>> THEN TRUE
    ELSE IF Head(p) = Head(q) THEN PathLess(Tail(p), Tail(q))
    ELSE NameRank(Head(p)) < NameRank(Head(q))

\* sort.Slice by destPath; the relative order of equal paths is not fixed.
SortedOps(ops) ==
    {[i \in 1..Len(ops) |-> ops[pi[i]]] : pi \in
        {q \in Perms(1..Len(ops)) :
            \A i \in 1..(Len(ops) - 1) :
                ~PathLess(ops[q[i + 1]].destPath, ops[q[i]].destPath)}}

\* sha256 of the file on disk equals sha256 of the wanted content.
SameOnDisk(f, op) ==
    LET rd == ReadFile(f, JoinAbs(ProjectRoot, op.destPath)) IN
    rd.ok /\ computeHash(rd.c) = computeHash(op.content)

\* A rollback that restores the files that existed and leaves the newly
\* created ones in place.
RECURSIVE rollbackKeepsNew(_, _, _)
rollbackKeepsNew(f, writtenPaths, snapshotMap) ==
    IF writtenPaths = <<>> THEN f
    ELSE LET p == Head(writtenPaths) IN
         IF p \notin DOMAIN snapshotMap \/ ~snapshotMap[p].existed
         THEN rollbackKeepsNew(f, Tail(writtenPaths), snapshotMap)
         ELSE rollbackKeepsNew(
                  SafeWrite(f, ProjectRoot, p, snapshotMap[p].content).fs,
                  Tail(writtenPaths), snapshotMap)

\* rollback: every written path, in writing order, gets its snapshot
\* back: the old content through SafeWrite, or SafeRemove when it did not
\* exist; errors are ignored.
RECURSIVE rollback(_, _, _)
rollback(f, writtenPaths, snapshotMap) ==
    IF writtenPaths = <<>> THEN f
    ELSE LET p == Head(writtenPaths) IN
         IF p \notin DOMAIN snapshotMap
         THEN rollback(f, Tail(writtenPaths), snapshotMap)
         ELSE IF snapshotMap[p].existed
         THEN rollback(SafeWrite(f, ProjectRoot, p, snapshotMap[p].content).fs,
                       Tail(writtenPaths), snapshotMap)
         ELSE rollback(SafeRemove(f, ProjectRoot, p).fs,
                       Tail(writtenPaths), snapshotMap)

\* The snapshots Sync takes before writing, keyed by path as rollback
\* keys them.
Snapshots(f, ops) ==
    [p \in {ops[i].destPath : i \in 1..Len(ops)} |->
        LET rd == ReadFile(f, JoinAbs(ProjectRoot, p)) IN
        [content |-> rd.c, existed |-> rd.ok]]

-----------------------------------------------------------------------------
(* The lockfile *)

NoLockfile == [state |-> "absent", version |-> 0, sources |-> <<>>]

ValidLockfile(sources) == [state |-> "valid", version |-> 1, sources |-> sources]

\* Client.loadLockfile: whatever lock.Load cannot return becomes an empty
\* version 1 lockfile.
loadLockfile(lf) ==
    IF lf.state = "valid" THEN lf ELSE ValidLockfile(<<>>)

\* The map lockedByName / currentByName: the last entry of a name wins.
LockedByName(sources) ==
    [n \in {sources[i].name : i \in 1..Len(sources)} |->
        sources[CHOOSE i \in 1..Len(sources) :
                    /\ sources[i].name = n
                    /\ \A j \in 1..Len(sources) : sources[j].name = n => j <= i]]

-----------------------------------------------------------------------------
(* Client calls *)

Idle == [kind |-> "none", pc |-> "idle"]

Finished == call.pc = "done"

CallsMade == Len(hist) + (IF Finished THEN 1 ELSE 0)

CanStart == call.pc \in {"idle", "done"} /\ CallsMade < budget

\* What is remembered of a finished call.
Summary(c) ==
    [kind |-> c.kind, dryRun |-> c.dryRun, err |-> c.err,
     errors |-> c.kind = "sync" /\ c.errors # <<>>,
     whole |-> IF c.kind = "update"
               THEN c.names = <<>> /\ c.failed = <<>> /\ c.cancelAt = -1
               ELSE c.cancelAt = -1]

BeginCall ==
    /\ hist' = IF Finished THEN Append(hist, Summary(call)) ELSE hist
    /\ pre' = [fs |-> fs, lockfile |-> lockfile, cache |-> cache]
    /\ cancelled' = FALSE
    /\ UNCHANGED <<cfg, upstream, budget, cres>>

\* The cancellation token of the running call is cancelled between two of
\* its steps; cancelAt remembers how many steps were done by then.
Cancel ==
    /\ call.pc \in {"writing", "resolving"}
    /\ ~cancelled
    /\ cancelled' = TRUE
    /\ call' = [call EXCEPT !.cancelAt = call.i - 1]
    /\ UNCHANGED <<fs, lockfile, cache, cfg, upstream, pre, hist, budget, cres>>

-----------------------------------------------------------------------------
(* Client.Sync / SyncEngine.Sync *)

\* A Sync that goes on to its write loop in a dry run as well.
SyncCallIgnoringDryRun(dryRun, pc, ops, written, skipped, errors, err, nilres) ==
    LET go == IF dryRun /\ ~err /\ ops # <<>> THEN "writing" ELSE pc IN
    [kind |-> "sync", pc |-> go, dryRun |-> dryRun, ops |-> ops,
     snaps |-> IF go = "writing" THEN Snapshots(fs, ops) ELSE <<>>,
     i |-> 1, writtenPaths |-> <<>>, wlog |-> <<>>,
     written |-> IF go = "writing" THEN <<>> ELSE written,
     skipped |-> IF go = "writing" THEN <<>> ELSE skipped, errors |-> errors,
     err |-> err, nilres |-> nilres, rolledBack |-> FALSE, cancelAt |-> -1]

SyncCall(dryRun, pc, ops, written, skipped, errors, err, nilres) ==
    [kind |-> "sync", pc |-> pc, dryRun |-> dryRun, ops |-> ops,
     snaps |-> IF pc = "writing" THEN Snapshots(fs, ops) ELSE <<>>,
     i |-> 1, writtenPaths |-> <<>>, wlog |-> <<>>,
     written |-> written, skipped |-> skipped, errors |-> errors,
     err |-> err, nilres |-> nilres, rolledBack |-> FALSE, cancelAt |-> -1]

\* The dry-run report: "new" for an unreadable destination, "modified"
\* for different bytes, "unchanged" otherwise.
RECURSIVE DryRunWritten(_, _)
DryRunWritten(f, ops) ==
    IF ops = <<>> THEN <<>>
    ELSE LET rd == ReadFile(f, JoinAbs(ProjectRoot, Head(ops).destPath)) IN
         (IF ~rd.ok THEN <<[path |-> Head(ops).destPath, action |-> "new"]>>
          ELSE IF computeHash(rd.c) # computeHash(Head(ops).content)
          THEN <<[path |-> Head(ops).destPath, action |-> "modified"]>>
          ELSE <<>>) \o DryRunWritten(f, Tail(ops))

RECURSIVE DryRunSkipped(_, _)
DryRunSkipped(f, ops) ==
    IF ops = <<>> THEN <<>>
    ELSE (IF SameOnDisk(f, Head(ops))
          THEN <<[path |-> Head(ops).destPath, action |-> "unchanged"]>>
          ELSE <<>>) \o DryRunSkipped(f, Tail(ops))

\* Sync up to its write loop: targets, fetching, transforms, overrides,
\* sorting, then the dry-run report or the snapshots.
SyncStart(dryRun) ==
    /\ CanStart
    /\ BeginCall
    /\ UNCHANGED <<fs, lockfile>>
    /\ LET rt == resolveAllTargets(NewToolMap(cfg.tool_definitions), cfg) IN
       IF ~rt.ok
       THEN /\ call' = SyncCall(dryRun, "done", <<>>, <<>>, <<>>, <<>>, TRUE, TRUE)
            /\ cache' = cache
       ELSE \E plan \in Gather(loadLockfile(lockfile).sources,
                               [ops |-> <<>>, cache |-> cache, errors |-> <<>>],
                               rt.map, cfg, upstream, FALSE) :
              LET ov == ApplyOverridesToOps(fs, plan.ops, cfg.overrides) IN
              /\ cache' = plan.cache
              /\ IF ~ov.ok
                 THEN call' = SyncCall(dryRun, "done", <<>>, <<>>, <<>>,
                                       plan.errors, TRUE, TRUE)
                 ELSE \E ops \in SortedOps(ov.ops) :
                        call' = IF dryRun
                                THEN SyncCall(TRUE, "done", ops,
                                              DryRunWritten(fs, ops),
                                              DryRunSkipped(fs, ops),
                                              plan.errors, FALSE, FALSE)
                                ELSE SyncCall(FALSE,
                                              IF ops = <<>> THEN "done" ELSE "writing",
                                              ops, <<>>, <<>>, plan.errors,
                                              FALSE, FALSE)

\* One round of the write loop.  An unchanged file is skipped; a failed
\* SafeWrite rolls back and ends the call with an error; the last round
\* ends the call.
WriteRound ==
    /\ call.kind = "sync" /\ call.pc = "writing"
    /\ LET op == call.ops[call.i]
           rd == ReadFile(fs, JoinAbs(ProjectRoot, op.destPath))
           w == SafeWrite(fs, ProjectRoot, op.destPath, op.content)
           next == IF call.i = Len(call.ops) THEN "done" ELSE "writing"
       IN  IF SameOnDisk(fs, op)
           THEN /\ fs' = fs
                /\ call' = [call EXCEPT
                      !.skipped = Append(@, [path |-> op.destPath,
                                             action |-> "unchanged"]),
                      !.i = @ + 1, !.pc = next]
           ELSE IF ~w.ok
           THEN /\ fs' = rollback(w.fs, call.writtenPaths, call.snaps)
                /\ call' = [call EXCEPT
                      !.errors = Append(@, op.source),
                      !.err = TRUE, !.rolledBack = TRUE, !.pc = "done"]
           ELSE /\ fs' = w.fs
                /\ call' = [call EXCEPT
                      !.written = Append(@, [path |-> op.destPath,
                                             action |-> IF rd.ok THEN "modified"
                                                        ELSE "written"]),
                      !.writtenPaths = Append(@, op.destPath),
                      !.wlog = Append(@, call.i),
                      !.i = @ + 1, !.pc = next]

\* The write loop from round i to its end, as a function of the files and
\* the sorted operations: the files it leaves.
RECURSIVE WriteLoop(_, _, _, _, _)
WriteLoop(f, ops, i, writtenPaths, snaps) ==
    IF i > Len(ops) THEN f
    ELSE IF SameOnDisk(f, ops[i]) THEN WriteLoop(f, ops, i + 1, writtenPaths, snaps)
    ELSE LET w == SafeWrite(f, ProjectRoot, ops[i].destPath, ops[i].content) IN
         IF ~w.ok THEN rollback(w.fs, writtenPaths, snaps)
         ELSE WriteLoop(w.fs, ops, i + 1, Append(writtenPaths, ops[i].destPath), snaps)

\* A write loop that also records the round in the lockfile, as a sync
\* that kept its progress there would.
SyncWriteStepRelock ==
    /\ WriteRound
    /\ lockfile' = [lockfile EXCEPT !.state = "valid", !.version = @ + 1]
    /\ UNCHANGED <<cache, cfg, upstream, cancelled, pre, hist, budget, cres>>

SyncWriteStep ==
    /\ WriteRound
    /\ UNCHANGED <<lockfile, cache, cfg, upstream, cancelled, pre, hist,
                   budget, cres>>

-----------------------------------------------------------------------------
(* Client.Update / UpdateEngine.Update *)

\* configByName lookup of the requested names: the sources to update, in
\* the order they were asked for.
RECURSIVE Filtered(_, _)
Filtered(names, sources) ==
    IF names = <<>> THEN <<>>
    ELSE (IF \E i \in 1..Len(sources) : sources[i].name = Head(names)
          THEN <<LockedByName(sources)[Head(names)]>> ELSE <<>>)
         \o Filtered(Tail(names), sources)

\* A variant that records no failure for a name the configuration lacks.
NotInConfigDropped(names, sources) == <<>>

\* The requested names the configuration does not define.
RECURSIVE NotInConfig(_, _)
NotInConfig(names, sources) ==
    IF names = <<>> THEN <<>>
    ELSE (IF \E i \in 1..Len(sources) : sources[i].name = Head(names)
          THEN <<>> ELSE <<Head(names)>>)
         \o NotInConfig(Tail(names), sources)

\* A lockfile build that keeps only what this call resolved.
RECURSIVE BuildLockResolvedOnly(_, _, _)
BuildLockResolvedOnly(sources, newByName, currentByName) ==
    IF sources = <<>> THEN <<>>
    ELSE (IF Head(sources).name \in DOMAIN newByName
          THEN <<newByName[Head(sources).name]>> ELSE <<>>)
         \o BuildLockResolvedOnly(Tail(sources), newByName, currentByName)

\* A lockfile build that starts from the entries the lockfile has and
\* appends what this call resolved.
BuildLockFromCurrent(sources, newByName, currentByName) ==
    LET keep == {n \in DOMAIN currentByName : n \notin DOMAIN newByName}
        ord == CHOOSE s \in Perms(keep) : TRUE
    IN  [i \in 1..Len(ord) |-> currentByName[ord[i]]]
        \o BuildLockResolvedOnly(sources, newByName, currentByName)

\* The new lockfile: every configured source in order, with its new entry,
\* else its current entry, else nothing.
RECURSIVE BuildLock(_, _, _)
BuildLock(sources, newByName, currentByName) ==
    IF sources = <<>> THEN <<>>
    ELSE (IF Head(sources).name \in DOMAIN newByName
          THEN <<newByName[Head(sources).name]>>
          ELSE IF Head(sources).name \in DOMAIN currentByName
          THEN <<currentByName[Head(sources).name]>>
          ELSE <<>>)
         \o BuildLock(Tail(sources), newByName, currentByName)

\* An end of Update that builds and saves the lockfile in a dry run too.
UpdateEndAlwaysSaves(c) ==
    [c EXCEPT !.pc = "done", !.saved = TRUE,
              !.newLock = BuildLock(cfg.sources, c.newByName, c.current)]

\* The end of Update: a dry run returns no lockfile; otherwise the new
\* lockfile is built and Client.Update saves it.
UpdateEnd(c) ==
    [c EXCEPT !.pc = "done",
              !.saved = ~c.dryRun,
              !.newLock = IF c.dryRun THEN <<>>
                          ELSE BuildLock(cfg.sources, c.newByName, c.current)]

LockfileAfter(c) ==
    IF c.saved THEN ValidLockfile(c.newLock) ELSE lockfile

UpdateStart(names, dryRun) ==
    /\ CanStart
    /\ BeginCall
    /\ LET todo == IF Len(names) > 0 THEN Filtered(names, cfg.sources)
                   ELSE cfg.sources
           c == [kind |-> "update", pc |-> "resolving", dryRun |-> dryRun,
                 names |-> names, todo |-> todo, i |-> 1,
                 current |-> LockedByName(loadLockfile(lockfile).sources),
                 newByName |-> <<>>, updated |-> <<>>,
                 failed |-> IF Len(names) > 0
                            THEN NotInConfig(names, cfg.sources) ELSE <<>>,
                 err |-> FALSE, cancelAt |-> -1, saved |-> FALSE,
                 newLock |-> <<>>]
       IN  /\ call' = IF todo = <<>> THEN UpdateEnd(c) ELSE c
           /\ lockfile' = IF todo = <<>> THEN LockfileAfter(UpdateEnd(c))
                          ELSE lockfile
    /\ UNCHANGED <<fs, cache>>

\* One round of the resolve loop; the last round is followed by the
\* lockfile build and the save.
UpdateResolveStep ==
    /\ call.kind = "update" /\ call.pc = "resolving"
    /\ LET src == call.todo[call.i]
           r == IF RegistryHas(src.type)
                THEN ResolverResolve(src, upstream[src.name], cancelled)
                ELSE [ok |-> FALSE]
           ls == resolvedToLocked(src, r)
           ft == ResolverFetch(r, upstream[src.name], cancelled)
           c1 == IF ~r.ok
                 THEN [call EXCEPT !.failed = Append(@, src.name), !.i = @ + 1]
                 ELSE [call EXCEPT
                         !.updated = Append(@, [name |-> src.name,
                                                isNew |-> src.name \notin DOMAIN call.current,
                                                after |-> ls]),
                         !.newByName = (src.name :> ls) @@ @,
                         !.i = @ + 1]
           c2 == IF call.i = Len(call.todo) THEN UpdateEnd(c1) ELSE c1
       IN  /\ call' = c2
           /\ cache' = IF r.ok /\ ft.ok
                       THEN PutFetched(cache, ft.files, DOMAIN ft.files)
                       ELSE cache
           /\ lockfile' = LockfileAfter(c2)
    /\ UNCHANGED <<fs, cfg, upstream, cancelled, pre, hist, budget, cres>>

-----------------------------------------------------------------------------
(* Client.Prune / PruneEngine.Prune *)

\* The locked sources the configuration no longer defines.
Orphans(lf, c) ==
    {i \in 1..Len(lf.sources) :
        \A j \in 1..Len(c.sources) : c.sources[j].name # lf.sources[i].name}

\* The paths the removal loop tries: every file of every orphan under the
\* destination of every known tool.
PrunePaths(lf, c, tm) ==
    {JoinRel(tm[t], r) : t \in DOMAIN tm,
                         r \in UNION {DOMAIN lf.sources[i].files : i \in Orphans(lf, c)}}

\* Those of them that name something on disk: a SafeRemove of any other
\* path fails and changes nothing, whenever it is tried.
PruneCandidates(f, paths) ==
    {p \in paths :
        LET q == JoinAbs(ProjectRoot, p)
            par == EvalSymlinks(f, Dir(q))
        IN  q # <<>> /\ par.ok /\ Exists(f, Append(par.path, Last(q)))}

\* SafeRemove over the paths in the given order; [fs, removed].
RECURSIVE RemoveAll(_, _, _)
RemoveAll(f, order, removed) ==
    IF order = <<>> THEN [fs |-> f, removed |-> removed]
    ELSE LET r == SafeRemove(f, ProjectRoot, Head(order)) IN
         RemoveAll(r.fs, Tail(order),
                   IF r.ok THEN Append(removed, Head(order)) ELSE removed)

\* A Prune that runs its removal loop in a dry run as well.
PruneCallIgnoringDryRun(dryRun) ==
    /\ CanStart
    /\ BeginCall
    /\ LET tm == NewToolMap(cfg.tool_definitions)
           lf == loadLockfile(lockfile)
           done(removed, err) ==
               [kind |-> "prune", pc |-> "done", dryRun |-> dryRun,
                removed |-> removed, err |-> err, cancelAt |-> -1]
       IN  IF ~resolveAllTargets(tm, cfg).ok
           THEN call' = done(<<>>, TRUE) /\ fs' = fs
           ELSE \E order \in Perms(PruneCandidates(fs, PrunePaths(lf, cfg, tm))) :
                  LET out == RemoveAll(fs, order, <<>>) IN
                  /\ fs' = out.fs
                  /\ call' = done(out.removed, FALSE)
    /\ UNCHANGED <<lockfile, cache>>

\* Prune in one step; the order of the removals is the order the map
\* iterations happen to take.
PruneCall(dryRun) ==
    /\ CanStart
    /\ BeginCall
    /\ LET tm == NewToolMap(cfg.tool_definitions)
           lf == loadLockfile(lockfile)
           done(removed, err) ==
               [kind |-> "prune", pc |-> "done", dryRun |-> dryRun,
                removed |-> removed, err |-> err, cancelAt |-> -1]
       IN  IF ~resolveAllTargets(tm, cfg).ok
           THEN call' = done(<<>>, TRUE) /\ fs' = fs
           ELSE IF dryRun
           THEN call' = done(<<>>, FALSE) /\ fs' = fs
           ELSE \E order \in Perms(PruneCandidates(fs, PrunePaths(lf, cfg, tm))) :
                  LET out == RemoveAll(fs, order, <<>>) IN
                  /\ fs' = out.fs
                  /\ call' = done(out.removed, FALSE)
    /\ UNCHANGED <<lockfile, cache>>

-----------------------------------------------------------------------------
(* Client.Check / CheckEngine.Check *)

\* The pairs the loops of Check visit: for a source that has targets and a
\* lockfile entry, every file of the entry under every resolved target.
CheckVisits(lf, tmap) ==
    LET byName == LockedByName(lf.sources) IN
    {[destPath |-> JoinRel(tmap[n][i].destination, r), sha |-> byName[n].files[r]] :
        <<n, i, r>> \in {x \in (DOMAIN tmap) \X (1..4) \X
                                UNION {DOMAIN byName[k].files : k \in DOMAIN byName} :
                           /\ x[1] \in DOMAIN byName
                           /\ x[2] \in 1..Len(tmap[x[1]])
                           /\ x[3] \in DOMAIN byName[x[1]].files}}

\* Missing: the visited paths whose read fails with "not exist".
CheckMissing(f, visits) ==
    {v.destPath : v \in {w \in visits :
        ReadFileErr(f, JoinAbs(ProjectRoot, w.destPath)) = "notexist"}}

\* Drifted: the visited paths that were read and hash to something else.
CheckDrifted(f, visits) ==
    {v.destPath : v \in {w \in visits :
        LET rd == ReadFile(f, JoinAbs(ProjectRoot, w.destPath)) IN
        rd.ok /\ computeHash(rd.c) # w.sha}}

\* Check in one step.  Missing and Drifted are kept as sets: their order is
\* the order of the map iterations.
CheckCall ==
    /\ CanStart
    /\ BeginCall
    /\ LET rt == resolveAllTargets(NewToolMap(cfg.tool_definitions), cfg)
           lf == loadLockfile(lockfile)
           done(missing, drifted, err) ==
               [kind |-> "check", pc |-> "done", dryRun |-> FALSE,
                clean |-> ~err /\ missing = {} /\ drifted = {},
                missing |-> missing, drifted |-> drifted,
                err |-> err, nilres |-> err, cancelAt |-> -1]
       IN  call' = IF ~rt.ok THEN done({}, {}, TRUE)
                   ELSE done(CheckMissing(fs, CheckVisits(lf, rt.map)),
                             CheckDrifted(fs, CheckVisits(lf, rt.map)), FALSE)
    /\ UNCHANGED <<fs, lockfile, cache>>

-----------------------------------------------------------------------------
(* Verify and Status *)

\* hasChanged: a git source whose commit moved has changed; after that,
\* for every type, the number of files and the hash of each locked file
\* are compared.
hasChanged(ls, resolved) ==
    \/ ls.type = "git" /\ resolved.commit # "" /\ ls.commit # resolved.commit
    \/ Cardinality(DOMAIN ls.files) # Cardinality(DOMAIN resolved.files)
    \/ \E r \in DOMAIN ls.files :
          r \notin DOMAIN resolved.files \/ ls.files[r] # resolved.files[r]

\* The body of the loop of Verify for one name: the list the name is
\* appended to.
VerifyOne(name, lf, c, up) ==
    LET configByName == LockedByName(c.sources)
        lockedByName == LockedByName(lf.sources)
    IN  IF name \notin DOMAIN configByName THEN "error"
        ELSE IF name \notin DOMAIN lockedByName THEN "changed"
        ELSE IF ~RegistryHas(configByName[name].type) THEN "error"
        ELSE LET resolved == ResolverResolve(configByName[name], up[name], FALSE) IN
             IF ~resolved.ok THEN "error"
             ELSE IF hasChanged(lockedByName[name], resolved) THEN "changed"
             ELSE "uptodate"

\* The names a call without names works on: every configured source.
NamesOrAll(names, c) ==
    IF names = <<>> THEN [i \in 1..Len(c.sources) |-> c.sources[i].name]
    ELSE names

\* A variant of Verify that writes a normalised lockfile back.
VerifyCallSavingLock(names) ==
    /\ CanStart
    /\ BeginCall
    /\ call' = [kind |-> "verify", pc |-> "done", dryRun |-> FALSE,
                names |-> NamesOrAll(names, cfg), report |-> <<>>,
                err |-> FALSE, nilres |-> FALSE, cancelAt |-> -1]
    /\ lockfile' = loadLockfile(NoLockfile)
    /\ UNCHANGED <<fs, cache>>

\* Client.Verify in one step.  report[i] is the list names[i] went to;
\* Changed, UpToDate and Errors are its three projections, in order.
VerifyCall(names) ==
    /\ CanStart
    /\ BeginCall
    /\ LET lf == loadLockfile(lockfile)
           all == NamesOrAll(names, cfg)
       IN  call' = [kind |-> "verify", pc |-> "done", dryRun |-> FALSE,
                    names |-> all,
                    report |-> [i \in 1..Len(all) |->
                                   VerifyOne(all[i], lf, cfg, upstream)],
                    err |-> FALSE, nilres |-> FALSE, cancelAt |-> -1]
    /\ UNCHANGED <<fs, lockfile, cache>>

\* A variant that counts a target file as missing only when the read
\* fails with "not exist".
computeStateNotExistOnly(f, ls, targets) ==
    LET anyMissing == \E i \in 1..Len(targets), r \in DOMAIN ls.files :
            ReadFileErr(f, JoinAbs(ProjectRoot,
                                   JoinRel(targets[i].destination, r))) = "notexist"
        anyDrifted == \E i \in 1..Len(targets), r \in DOMAIN ls.files :
            LET rd == ReadFile(f, JoinAbs(ProjectRoot, JoinRel(targets[i].destination, r)))
            IN  rd.ok /\ computeHash(rd.c) # ls.files[r]
    IN  IF anyMissing THEN "missing"
        ELSE IF anyDrifted THEN "drifted"
        ELSE "synced"

\* computeState: a target file that cannot be read makes the source
\* missing, else one that hashes to something else makes it drifted.
computeState(f, ls, targets) ==
    LET anyMissing == \E i \in 1..Len(targets), r \in DOMAIN ls.files :
            ~ReadFile(f, JoinAbs(ProjectRoot, JoinRel(targets[i].destination, r))).ok
        anyDrifted == \E i \in 1..Len(targets), r \in DOMAIN ls.files :
            LET rd == ReadFile(f, JoinAbs(ProjectRoot, JoinRel(targets[i].destination, r)))
            IN  rd.ok /\ computeHash(rd.c) # ls.files[r]
    IN  IF anyMissing THEN "missing"
        ELSE IF anyDrifted THEN "drifted"
        ELSE "synced"

\* The status command in one step: the lockfile is loaded by the loader
\* of the command line, which fails on a lockfile it cannot parse, and
\* the states are those of StatusEngine.Status.
StatusCall(names) ==
    /\ CanStart
    /\ BeginCall
    /\ LET rt == resolveAllTargets(NewToolMap(cfg.tool_definitions), cfg)
           lockedByName == LockedByName(lockfile.sources)
           all == NamesOrAll(names, cfg)
           done(report, err) ==
               [kind |-> "status", pc |-> "done", dryRun |-> FALSE,
                names |-> all, report |-> report,
                err |-> err, nilres |-> err, cancelAt |-> -1]
       IN  call' = IF lockfile.state = "corrupt" \/ ~rt.ok THEN done(<<>>, TRUE)
                   ELSE done([i \in 1..Len(all) |->
                                IF all[i] \notin DOMAIN lockedByName THEN "pending"
                                ELSE computeState(fs, lockedByName[all[i]],
                                        IF all[i] \in DOMAIN rt.map
                                        THEN rt.map[all[i]] ELSE <<>>)],
                             FALSE)
    /\ UNCHANGED <<fs, lockfile, cache>>

-----------------------------------------------------------------------------
(* Hierarchical configuration loading *)

\* What can be at the path of a configuration file: nothing, a file that
\* may not be read, a file that is not YAML, or a configuration, of which
\* the version (0 when not declared) and the sources matter.
MissingFile == [kind |-> "missing", version |-> 0, sources |-> <<>>]

\* A source as a layer declares it: the layer shows in its type and ref.
LayerSource(n, level) ==
    [name |-> n, type |-> IF level = "system" THEN "git" ELSE "local",
     ref |-> level]

\* The source lists of a layer: none, one, two, and one name twice.
LayerSources(level) ==
    {<<>>,
     <<LayerSource("a", level)>>,
     <<LayerSource("b", level), LayerSource("a", level)>>,
     <<LayerSource("a", level), [LayerSource("a", level) EXCEPT !.ref = "again"]>>}

ConfigFiles(level) ==
    {MissingFile,
     [kind |-> "denied", version |-> 0, sources |-> <<>>],
     [kind |-> "badyaml", version |-> 0, sources |-> <<>>]}
    \cup [kind : {"config"}, version : {0, 1, 2}, sources : LayerSources(level)]

WorkDir == "/w/"

DefaultSystemPath == "/etc/agent-sync/agent-sync.yaml"

DefaultUserPath == "/home/.config/agent-sync/agent-sync.yaml"

\* filepath.Abs: a relative path is joined to the working directory.
Abs(path) == IF path = "p.yaml" THEN WorkDir \o path ELSE path

\* DiscoverPaths: system, user, project, each under its default when the
\* option is empty, and none twice by absolute path.
DiscoverPaths(opts) ==
    LET sysPath == IF opts.SystemConfigPath = "" THEN DefaultSystemPath
                   ELSE opts.SystemConfigPath
        userPath == IF opts.UserConfigPath = "" THEN DefaultUserPath
                    ELSE opts.UserConfigPath
        addLayer(layers, level, path) ==
            IF path = "" THEN layers
            ELSE IF \E i \in 1..Len(layers) : Abs(layers[i].Path) = Abs(path)
            THEN layers
            ELSE Append(layers, [Path |-> path, Level |-> level])
    IN  addLayer(addLayer(addLayer(<<>>, "system", sysPath), "user", userPath),
                 "project", opts.ProjectPath)

\* Parse: the error class of reading and unmarshalling the file.
Parse(disk, path) ==
    LET file == disk[Abs(path)] IN
    [err |-> CASE file.kind = "missing" -> "notexist"
               [] file.kind = "denied" -> "permission"
               [] file.kind = "badyaml" -> "parse"
               [] OTHER -> "none",
     cfg |-> file]

\* A merge of the sources that keeps the entries of the lower layer and
\* adds only the names that are new.
mergeNamedSourcesBaseWins(base, overlay) ==
    base \o SelectSeq(overlay,
                      LAMBDA s : \A i \in 1..Len(base) : base[i].name # s.name)

\* mergeNamedSources: the entries of base whose name overlay lacks, then
\* all of overlay.
mergeNamedSources(base, overlay) ==
    IF Len(base) = 0 THEN overlay
    ELSE IF Len(overlay) = 0 THEN base
    ELSE SelectSeq(base, LAMBDA s : \A i \in 1..Len(overlay) : overlay[i].name # s.name)
         \o overlay

\* MergeAll: versions must agree where both are declared; sources are
\* merged by name.
RECURSIVE MergeAll(_)
MergeAll(configs) ==
    IF Len(configs) = 1 THEN [ok |-> TRUE, cfg |-> configs[1]]
    ELSE LET base == MergeAll(Front(configs))
             overlay == Last(configs)
         IN  IF ~base.ok THEN base
             ELSE IF base.cfg.version # 0 /\ overlay.version # 0
                     /\ base.cfg.version # overlay.version
             THEN [ok |-> FALSE, cfg |-> base.cfg]
             ELSE [ok |-> TRUE,
                   cfg |-> [kind |-> "config",
                            version |-> IF overlay.version = 0 THEN base.cfg.version
                                        ELSE overlay.version,
                            sources |-> mergeNamedSources(base.cfg.sources,
                                                          overlay.sources)]]

\* config.Validate, as far as version and sources go: version 1, a
\* source, and no name twice.
ConfigValidate(c) ==
    /\ c.version = 1
    /\ Len(c.sources) > 0
    /\ \A i, j \in 1..Len(c.sources) :
          c.sources[i].name = c.sources[j].name => i = j

\* The loop over the layers: the configurations parsed so far, or the
\* failure that ended it.
RECURSIVE ParseLayers(_, _, _)
ParseLayers(disk, layers, configs) ==
    IF layers = <<>> THEN [ok |-> TRUE, configs |-> configs]
    ELSE LET parsed == Parse(disk, Head(layers).Path) IN
         IF parsed.err = "none"
         THEN ParseLayers(disk, Tail(layers), Append(configs, parsed.cfg))
         ELSE IF parsed.err = "notexist" /\ Head(layers).Level # "project"
         THEN ParseLayers(disk, Tail(layers), configs)
         ELSE [ok |-> FALSE, configs |-> configs]

\* LoadHierarchical: ok, how many configurations were merged, and the
\* configuration returned.
LoadHierarchical(disk, opts) ==
    IF opts.NoInherit
    THEN LET parsed == Parse(disk, opts.ProjectPath) IN
         [ok |-> parsed.err = "none" /\ ConfigValidate(parsed.cfg),
          merged |-> IF parsed.err = "none" THEN 1 ELSE 0,
          cfg |-> parsed.cfg]
    ELSE LET loaded == ParseLayers(disk, DiscoverPaths(opts), <<>>) IN
         IF ~loaded.ok \/ loaded.configs = <<>>
         THEN [ok |-> FALSE, merged |-> Len(loaded.configs), cfg |-> MissingFile]
         ELSE [ok |-> MergeAll(loaded.configs).ok
                        /\ ConfigValidate(MergeAll(loaded.configs).cfg),
               merged |-> Len(loaded.configs),
               cfg |-> MergeAll(loaded.configs).cfg]

\* The options of a call: the project path under two spellings, and each
\* lower layer at its default, at a path of its own or at the project path.
LoadOptions ==
    [ProjectPath : {"p.yaml", "/w/p.yaml"},
     SystemConfigPath : {"", "/s.yaml", "p.yaml", "/w/p.yaml"},
     UserConfigPath : {"", "/u.yaml", "/w/p.yaml"},
     NoInherit : BOOLEAN]

\* The files at the three paths; nothing is at the default paths.
Disks ==
    {("/w/p.yaml" :> p) @@ ("/s.yaml" :> s) @@ ("/u.yaml" :> u)
       @@ (DefaultSystemPath :> MissingFile) @@ (DefaultUserPath :> MissingFile) :
        p \in {c \in ConfigFiles("project") : c.kind \in {"missing", "config"}},
        s \in ConfigFiles("system"),
        u \in {c \in ConfigFiles("user") : c.version # 2}}

LoadCall ==
    /\ call.kind = "load" /\ call.pc = "ready"
    /\ call' = [call EXCEPT !.pc = "done",
                            !.res = LoadHierarchical(call.disk, call.opts)]
    /\ UNCHANGED <<fs, lockfile, cache, cfg, upstream, cancelled, pre, hist,
                   budget, cres>>

-----------------------------------------------------------------------------
(* The cache on its own *)

Contents == {<<>>, <<"x">>, <<"y">>}

Hashes == {computeHash(c) : c \in Contents}

NoCacheCall ==
    [op |-> "none", h |-> computeHash(<<>>), ok |-> FALSE, c |-> <<>>,
     had |-> FALSE]

CachePutCall(h, c) ==
    /\ cache' = CachePut(cache, h, c).cache
    /\ cres' = [op |-> "put", h |-> h, ok |-> CachePut(cache, h, c).ok, c |-> c,
                had |-> h \in DOMAIN cache]
    /\ UNCHANGED <<fs, lockfile, cfg, upstream, call, cancelled, pre, hist, budget>>

CacheGetCall(h) ==
    /\ cache' = CacheGet(cache, h).cache
    /\ cres' = [op |-> "get", h |-> h, ok |-> CacheGet(cache, h).found,
                c |-> CacheGet(cache, h).c, had |-> h \in DOMAIN cache]
    /\ UNCHANGED <<fs, lockfile, cfg, upstream, call, cancelled, pre, hist, budget>>

\* Something outside the program rewrites the bytes of a stored entry.
CacheCorrupt(h, c) ==
    /\ h \in DOMAIN cache
    /\ cache[h] # c
    /\ cache' = [cache EXCEPT ![h] = c]
    /\ cres' = [op |-> "corrupt", h |-> h, ok |-> TRUE, c |-> c, had |-> TRUE]
    /\ UNCHANGED <<fs, lockfile, cfg, upstream, call, cancelled, pre, hist, budget>>

-----------------------------------------------------------------------------
(* Put and Get of one key by several processes at once *)

\* The number of concurrent callers.
MaxProcs == 3

ConcProcs == 1 .. MaxProcs

\* The bytes every Put stores, and their key.
ConcBytes == <<"x", "y">>

ConcKey == computeHash(ConcBytes)

\* What a reader of the object path sees: entry is 0 when the path does not
\* exist, otherwise the process whose file was renamed onto it.
Stored(entry, inode) ==
    IF entry = 0 THEN [h \in {} |-> <<>>] ELSE (ConcKey :> inode[entry])

ConcStep(c) ==
    /\ call' = c
    /\ cache' = Stored(c.entry, c.inode)
    /\ UNCHANGED <<fs, lockfile, cfg, upstream, cancelled, pre, hist, budget, cres>>

ConcAt(p, role, pc) ==
    call.kind = "conc" /\ call.role[p] = role /\ call.pc[p] = pc

\* A variant of the temp-file creation that creates the file at the object
\* path itself.
PutCreateInPlace(p) ==
    /\ ConcAt(p, "put", "create")
    /\ ConcStep([call EXCEPT !.inode[p] = <<>>, !.entry = p, !.pc[p] = "write"])

\* Cache.Put up to os.Stat: the hash check, then "already cached" when the
\* object path exists.
PutStat(p) ==
    /\ ConcAt(p, "put", "start")
    /\ ConcStep(IF computeHash(ConcBytes) # ConcKey
                THEN [call EXCEPT !.pc[p] = "done", !.res[p] = "error"]
                ELSE IF call.entry # 0
                THEN [call EXCEPT !.pc[p] = "done", !.res[p] = "ok"]
                ELSE [call EXCEPT !.pc[p] = "create"])

\* os.MkdirAll and os.CreateTemp: an empty file under a name of its own.
PutCreate(p) ==
    /\ ConcAt(p, "put", "create")
    /\ ConcStep([call EXCEPT !.inode[p] = <<>>, !.pc[p] = "write"])

\* tmp.Write, one piece at a time; Sync and Close follow the last piece.
PutWrite(p) ==
    /\ ConcAt(p, "put", "write")
    /\ LET n == Len(call.inode[p]) + 1 IN
       ConcStep([call EXCEPT !.inode[p] = SubSeq(ConcBytes, 1, n),
                             !.pc[p] = IF n = Len(ConcBytes) THEN "rename" ELSE "write"])

\* os.Rename of the temp file onto the object path.
PutRename(p) ==
    /\ ConcAt(p, "put", "rename")
    /\ ConcStep([call EXCEPT !.entry = p, !.pc[p] = "done", !.res[p] = "ok"])

\* os.ReadFile opens the object path; a missing file is a miss.
GetOpen(p) ==
    /\ ConcAt(p, "get", "start")
    /\ ConcStep(IF call.entry = 0
                THEN [call EXCEPT !.pc[p] = "done", !.res[p] = "miss"]
                ELSE [call EXCEPT !.fd[p] = call.entry, !.pc[p] = "read"])

\* os.ReadFile reads the file it opened.
GetRead(p) ==
    /\ ConcAt(p, "get", "read")
    /\ ConcStep([call EXCEPT !.data[p] = call.inode[call.fd[p]], !.pc[p] = "verify"])

\* The hash check of Get; a mismatch removes the object path.
GetVerify(p) ==
    /\ ConcAt(p, "get", "verify")
    /\ ConcStep(IF computeHash(call.data[p]) # ConcKey
                THEN [call EXCEPT !.entry = 0, !.pc[p] = "done", !.res[p] = "miss"]
                ELSE [call EXCEPT !.pc[p] = "done", !.res[p] = "found"])

-----------------------------------------------------------------------------
(* lock.Save step by step, with a reader of the lockfile path *)

\* A marshal that leaves the path of a source out of its block.
MarshalWithoutPath(lf) ==
    <<[version |-> lf.version]>>
    \o [i \in 1..Len(lf.sources) |->
           [k \in {"name", "type", "status", "repo", "commit", "files"} |->
               lf.sources[i][k]]]

\* yaml.Marshal of a lockfile: the version line, then one block per
\* source.  A block has name, type and status, and each of repo, commit,
\* path and files only when it is not empty (omitempty).
Marshal(lf) ==
    <<[version |-> lf.version]>>
    \o [i \in 1..Len(lf.sources) |->
           LET ls == lf.sources[i] IN
           [k \in {"name", "type", "status"}
                    \cup (IF ls.repo # "" THEN {"repo"} ELSE {})
                    \cup (IF ls.commit # "" THEN {"commit"} ELSE {})
                    \cup (IF ls.path # <<>> THEN {"path"} ELSE {})
                    \cup (IF DOMAIN ls.files # {} THEN {"files"} ELSE {})
               |-> ls[k]]]

\* lock.Validate: version 1, and every source has a name no other source
\* has, a type and a status.
LockValidate(lf) ==
    /\ lf.version = 1
    /\ \A i \in 1..Len(lf.sources) :
          /\ lf.sources[i].name # ""
          /\ lf.sources[i].type # ""
          /\ lf.sources[i].status # ""
          /\ \A j \in 1..Len(lf.sources) :
                lf.sources[i].name = lf.sources[j].name => i = j

\* What the lockfile path holds, as lock.Load sees it, when its bytes are
\* data: yaml.Unmarshal gives a field a block lacks its zero value, no
\* document at all is version 0, and what Validate rejects is an error.
Unmarshal(data) ==
    LET field(b, k, zero) == IF k \in DOMAIN b THEN b[k] ELSE zero
        parsed ==
            [version |-> IF data # <<>> /\ DOMAIN Head(data) = {"version"}
                         THEN Head(data).version ELSE 0,
             sources |-> IF data = <<>> THEN <<>>
                         ELSE [i \in 1..(Len(data) - 1) |->
                                  LET b == data[i + 1] IN
                                  [name |-> field(b, "name", ""),
                                   type |-> field(b, "type", ""),
                                   repo |-> field(b, "repo", ""),
                                   path |-> field(b, "path", <<>>),
                                   commit |-> field(b, "commit", ""),
                                   files |-> field(b, "files", <<>>),
                                   status |-> field(b, "status", "")]]]
    IN  IF LockValidate(parsed)
        THEN [state |-> "valid", version |-> 1, sources |-> parsed.sources]
        ELSE [state |-> "corrupt", version |-> 0, sources |-> <<>>]

NoTmp == [exists |-> FALSE, data |-> <<>>]

SaveCall(lf, tmp) ==
    [kind |-> "save", pc |-> "marshal", newLock |-> lf, data |-> <<>>,
     tmp |-> tmp, err |-> FALSE, failedAt |-> "none", readAt |-> "none",
     read |-> NoLockfile]

SaveAt(pc) == call.kind = "save" /\ call.pc = pc

SaveStep(c) ==
    /\ call' = c
    /\ UNCHANGED <<fs, cache, cfg, upstream, cancelled, pre, hist, budget, cres>>

\* A variant of the open of os.WriteFile that truncates the lockfile path
\* instead of the temp path.
SaveOpenInPlace ==
    /\ SaveAt("open")
    /\ lockfile' = Unmarshal(<<>>)
    /\ SaveStep([call EXCEPT !.pc = "write"])

\* yaml.Marshal.
SaveMarshal ==
    /\ SaveAt("marshal")
    /\ lockfile' = lockfile
    /\ SaveStep([call EXCEPT !.data = Marshal(call.newLock), !.pc = "open"])

\* os.WriteFile(tmp): the file path + ".tmp" is created or truncated.
SaveOpenTmp ==
    /\ SaveAt("open")
    /\ lockfile' = lockfile
    /\ SaveStep([call EXCEPT !.tmp = [exists |-> TRUE, data |-> <<>>], !.pc = "write"])

\* os.WriteFile(tmp): the next piece of the document reaches the file.
SaveWritePiece ==
    /\ SaveAt("write")
    /\ lockfile' = lockfile
    /\ LET n == Len(call.tmp.data) + 1 IN
       SaveStep([call EXCEPT !.tmp.data = SubSeq(call.data, 1, n),
                             !.pc = IF n = Len(call.data) THEN "rename" ELSE "write"])

\* os.Rename(tmp, path).
SaveRename ==
    /\ SaveAt("rename")
    /\ lockfile' = Unmarshal(call.tmp.data)
    /\ SaveStep([call EXCEPT !.tmp = NoTmp, !.pc = "done"])

\* The step Save is at fails: an error is returned; only a failed rename
\* removes the temp file.
SaveFail ==
    /\ call.kind = "save" /\ call.pc \in {"marshal", "open", "write", "rename"}
    /\ lockfile' = lockfile
    /\ SaveStep([call EXCEPT !.pc = "failed", !.err = TRUE, !.failedAt = call.pc,
                             !.tmp = IF call.pc = "rename" THEN NoTmp ELSE @])

\* Another process loads the lockfile path while Save runs.
SaveReader ==
    /\ call.kind = "save" /\ call.pc \in {"open", "write", "rename"}
    /\ call.readAt = "none"
    /\ lockfile' = lockfile
    /\ SaveStep([call EXCEPT !.read = lockfile, !.readAt = call.pc])

-----------------------------------------------------------------------------
(* sandbox.SafeWrite step by step *)

SafeWriteCall(root, rel, content) ==
    [kind |-> "write", pc |-> "validate", root |-> root, rel |-> rel,
     content |-> content, validated |-> FALSE, resolved |-> <<>>,
     tmpPath |-> <<>>, err |-> FALSE, failedAt |-> "none"]

SwStep(c) ==
    /\ call' = c
    /\ UNCHANGED <<lockfile, cache, cfg, upstream, cancelled, pre, hist, budget, cres>>

SwFailed(at) == [call EXCEPT !.pc = "failed", !.err = TRUE, !.failedAt = at]

\* A variant of the write that puts the pieces into the destination itself.
SwWriteInPlace ==
    /\ call.kind = "write" /\ call.pc = "write"
    /\ LET par == EvalSymlinks(fs, Dir(call.resolved))
           q == Append(par.path, Last(call.resolved))
           n == (IF Exists(fs, q) /\ fs[q].k = "file" /\ IsPrefix(fs[q].c, call.content)
                    /\ fs[q].c # call.content
                 THEN Len(fs[q].c) ELSE 0) + 1
       IN  /\ fs' = IF Exists(fs, q) /\ fs[q].k = "dir" THEN fs
                    ELSE FsPut(fs, q, FileNode(SubSeq(call.content, 1, n)))
           /\ SwStep([call EXCEPT !.pc = IF n = Len(call.content)
                                         THEN "seal" ELSE "write"])

\* The two ValidatePath calls, of the path and of its parent.
SwValidate ==
    /\ call.kind = "write" /\ call.pc = "validate"
    /\ fs' = fs
    /\ LET v == ValidatePath(fs, call.root, call.rel) IN
       SwStep(IF ~v.ok \/ ~ValidatePath(fs, call.root, Dir(call.rel)).ok
              THEN [SwFailed("validate") EXCEPT !.validated = v.ok, !.resolved = v.path]
              ELSE [call EXCEPT !.validated = TRUE, !.resolved = v.path, !.pc = "mkdir"])

\* os.MkdirAll of the directory of the resolved path.
SwMkdirAll ==
    /\ call.kind = "write" /\ call.pc = "mkdir"
    /\ LET md == MkdirAll(fs, Dir(call.resolved)) IN
       /\ fs' = md.fs
       /\ SwStep(IF md.ok THEN [call EXCEPT !.pc = "create"] ELSE SwFailed("mkdir"))

\* os.CreateTemp: an empty file under a fresh name in that directory.
SwCreateTemp ==
    /\ call.kind = "write" /\ call.pc = "create"
    /\ LET t == Append(EvalSymlinks(fs, Dir(call.resolved)).path, ".agent-sync.tmp") IN
       /\ fs' = FsPut(fs, t, FileNode(<<>>))
       /\ SwStep([call EXCEPT !.tmpPath = t, !.pc = "write"])

\* tmp.Write: the next piece of the content reaches the temp file.
SwWritePiece ==
    /\ call.kind = "write" /\ call.pc = "write"
    /\ LET n == Len(fs[call.tmpPath].c) + 1 IN
       /\ fs' = FsPut(fs, call.tmpPath, FileNode(SubSeq(call.content, 1, n)))
       /\ SwStep([call EXCEPT !.pc = IF n = Len(call.content) THEN "seal" ELSE "write"])

\* tmp.Sync, tmp.Close and os.Chmod.
SwSeal ==
    /\ call.kind = "write" /\ call.pc = "seal"
    /\ fs' = fs
    /\ SwStep([call EXCEPT !.pc = "rename"])

\* os.Rename of the temp file onto the resolved path; when the rename is
\* refused the deferred cleanup removes the temp file.
SwRename ==
    /\ call.kind = "write" /\ call.pc = "rename"
    /\ LET c == fs[call.tmpPath].c
           rn == RenameOnto(FsDel(fs, call.tmpPath), call.resolved, c)
       IN  /\ fs' = rn.fs
           /\ SwStep(IF rn.ok THEN [call EXCEPT !.pc = "done"] ELSE SwFailed("rename"))

\* The step SafeWrite is at fails for a reason of the environment; the
\* deferred cleanup removes the temp file if there is one.
SwFail ==
    /\ call.kind = "write" /\ call.pc \in {"mkdir", "create", "write", "seal", "rename"}
    /\ fs' = IF call.tmpPath # <<>> /\ Exists(fs, call.tmpPath)
             THEN FsDel(fs, call.tmpPath) ELSE fs
    /\ SwStep(SwFailed(call.pc))

-----------------------------------------------------------------------------
(* Initial states and specifications *)

SourceNames == {"a", "b"}

LocalSource(n) ==
    [name |-> n, type |-> "local", path |-> <<"src", n>>, repo |-> "", ref |-> "",
     paths |-> <<>>]

GitSource(n) ==
    [name |-> n, type |-> "git", path |-> <<>>, repo |-> "r", ref |-> "main",
     paths |-> <<>>]

ToDest(n, d) == [source |-> n, tools |-> <<>>, destination |-> d]

ToTools(n, ts) == [source |-> n, tools |-> ts, destination |-> <<>>]

Config(sources, targets) ==
    [sources |-> sources, targets |-> targets, overrides |-> <<>>,
     transforms |-> <<>>, variables |-> <<>>, tool_definitions |-> <<>>]

\* One local source with one destination.
CfgLocal == Config(<<LocalSource("a")>>, <<ToDest("a", <<"in">>)>>)

\* Two sources that both put a file f into the same directory.
CfgConflict ==
    Config(<<GitSource("a"), GitSource("b")>>,
           <<ToDest("a", <<"in">>), ToDest("b", <<"in">>)>>)

\* The same with an override that appends a local file to f.
CfgOverride ==
    [CfgConflict EXCEPT
        !.overrides = <<[target |-> "f", strategy |-> "append",
                         file |-> <<"ovr">>]>>]

\* The second destination may be a link on disk.
CfgLink ==
    Config(<<GitSource("a"), GitSource("b")>>,
           <<ToDest("a", <<"in">>), ToDest("b", <<"lnk">>)>>)

\* A destination that climbs out of the project root.
CfgDotDot == Config(<<GitSource("a")>>, <<ToDest("a", <<"..", "ext">>)>>)

\* Tool targets; a source of the lockfile that is no longer configured.
CfgTools == Config(<<GitSource("b")>>, <<ToTools("b", <<"cursor", "codex">>)>>)

\* A template transform with its variable.
CfgTemplate ==
    [Config(<<GitSource("a")>>, <<ToDest("a", <<"out">>)>>) EXCEPT
        !.transforms = <<[source |-> "a", type |-> "template",
                          vars |-> ("v" :> "y")]>>]

\* A local and a git source with their own destinations.
CfgMixed ==
    Config(<<LocalSource("a"), GitSource("b")>>,
           <<ToDest("a", <<"in">>), ToDest("b", <<"out">>)>>)

\* Source b narrowed to one path of its repository after it was locked.
CfgPaths ==
    [Config(<<GitSource("b")>>, <<ToDest("b", <<"out">>)>>) EXCEPT
        !.sources[1].paths = <<<<"f">>>>]

\* Two sources in two directories, both with a file f, and an override
\* of g, which only the second has.
CfgOverrideDirs ==
    [Config(<<GitSource("a"), GitSource("b")>>,
            <<ToDest("a", <<"in">>), ToDest("b", <<"out">>)>>) EXCEPT
        !.overrides = <<[target |-> "g", strategy |-> "append",
                         file |-> <<"ovr">>]>>]

Configs == {CfgLocal, CfgConflict, CfgOverride, CfgLink, CfgDotDot, CfgTools,
            CfgTemplate, CfgMixed, CfgPaths, CfgOverrideDirs}

\* What a source serves: the directory of a local source, or the commits
\* of a repository and the commit its ref points to.
Serves(ok, head, commits) ==
    [ok |-> ok, isDir |-> TRUE, head |-> head, commits |-> commits]

UpstreamA(ok) ==
    Serves(ok, "c2", [k \in {"c1", "c2"} |->
                        IF k = "c1" THEN (<<"f">> :> <<"x">>)
                        ELSE (<<"f">> :> <<"x", VarRef>>)])

UpstreamB(ok) ==
    Serves(ok, "c1", [k \in {"c1"} |->
                        (<<"f">> :> <<"y">>) @@ (<<"g">> :> <<"x">>)])

Upstreams ==
    {[n \in SourceNames |-> IF n = "a" THEN UpstreamA(TRUE) ELSE UpstreamB(okB)] :
        okB \in BOOLEAN}

\* The lockfile an Update of every source of c writes when all resolve.
RECURSIVE FreshEntries(_)
FreshEntries(sources) ==
    IF sources = <<>> THEN <<>>
    ELSE LET src == Head(sources)
             up == IF src.name = "a" THEN UpstreamA(TRUE) ELSE UpstreamB(TRUE)
         IN  <<resolvedToLocked(src, ResolverResolve(src, up, FALSE))>>
             \o FreshEntries(Tail(sources))

\* An older lockfile: source a at its first commit, and source b.
StaleEntries ==
    <<[name |-> "a", type |-> "git", repo |-> "r", path |-> <<>>,
       commit |-> "c1", files |-> (<<"f">> :> computeHash(<<"x">>)),
       status |-> "ok"]>>
    \o FreshEntries(<<GitSource("b")>>)

\* A lockfile whose first source also names a file outside its directory.
EscapingEntries(c) ==
    LET fresh == FreshEntries(c.sources) IN
    [fresh EXCEPT ![1].files =
        (<<"..", "..", "ext", "f">> :> computeHash(<<"q">>)) @@ @]

\* A lockfile that exists and that lock.Load rejects (bad YAML, or a
\* version, name, type or status that fails Validate).
BrokenLockfile == [state |-> "corrupt", version |-> 0, sources |-> <<>>]

Lockfiles(c) ==
    {NoLockfile, ValidLockfile(FreshEntries(c.sources)),
     ValidLockfile(StaleEntries), ValidLockfile(EscapingEntries(c)),
     BrokenLockfile}

CacheOf(contents) == [h \in {computeHash(c) : c \in contents} |-> h.sha]

\* An entry whose bytes were changed after it was stored.
CorruptCache ==
    [CacheOf({<<"x">>, <<"y">>, <<"q">>}) EXCEPT ![computeHash(<<"x">>)] = <<"bad">>]

Caches ==
    {CacheOf({}), CacheOf({<<"x">>, <<"x", VarRef>>, <<"y">>, <<"q">>}),
     CorruptCache}

BaseFs ==
    (<<>> :> DirNode) @@ (<<"root">> :> DirNode) @@ (<<"ext">> :> DirNode)
    @@ (<<"ext", "f">> :> FileNode(<<"e">>))
    @@ (<<"root", "ovr">> :> FileNode(<<"o">>))

WithOldFile ==
    (<<"root", "in">> :> DirNode) @@ (<<"root", "in", "f">> :> FileNode(<<"q">>))
    @@ BaseFs

FileSystems ==
    {BaseFs,
     WithOldFile,
     \* lnk leads out of the project root
     (<<"root", "lnk">> :> LinkNode(<<"ext">>)) @@ WithOldFile,
     \* lnk is another name of the directory in
     (<<"root", "lnk">> :> LinkNode(<<"root", "in">>)) @@ WithOldFile,
     \* a dangling link, and a destination file that is a link to a file
     \* outside the project root
     (<<"root", "lnk">> :> LinkNode(<<"ext", "new">>))
        @@ (<<"root", "in">> :> DirNode)
        @@ (<<"root", "in", "f">> :> LinkNode(<<"ext", "f">>)) @@ BaseFs,
     \* the destination directory is a regular file
     (<<"root", "in">> :> FileNode(<<"q">>)) @@ BaseFs,
     \* a destination file is a directory
     (<<"root", "in", "g">> :> DirNode) @@ (<<"root", "out">> :> DirNode)
        @@ (<<"root", "out", "g">> :> DirNode) @@ WithOldFile,
     \* tool directories, one of them a link that leads out
     (<<"root", ".cursor">> :> DirNode)
        @@ (<<"root", ".cursor", "rules">> :> DirNode)
        @@ (<<"root", ".cursor", "rules", "f">> :> FileNode(<<"x">>))
        @@ (<<"root", ".codex">> :> LinkNode(<<"ext">>)) @@ BaseFs}

Init ==
    /\ cfg \in Configs
    /\ lockfile \in Lockfiles(cfg)
    /\ fs \in FileSystems
    /\ cache \in Caches
    /\ upstream \in Upstreams
    /\ call = Idle
    /\ cancelled = FALSE
    /\ pre = [fs |-> fs, lockfile |-> lockfile, cache |-> cache]
    /\ hist = <<>>
    /\ budget = 1
    /\ cres = NoCacheCall

UpdateRequests == {<<>>, <<"a">>, <<"b">>, <<"c">>, <<"c", "a">>, <<"a", "a">>}

Next ==
    \/ \E dryRun \in BOOLEAN : SyncStart(dryRun)
    \/ SyncWriteStep
    \/ Cancel
    \/ \E names \in UpdateRequests, dryRun \in BOOLEAN : UpdateStart(names, dryRun)
    \/ UpdateResolveStep
    \/ \E dryRun \in BOOLEAN : PruneCall(dryRun)
    \/ CheckCall
    \/ \E names \in UpdateRequests : VerifyCall(names)
    \/ \E names \in UpdateRequests : StatusCall(names)

Spec == Init /\ [][Next]_vars

\* Several calls one after the other, on a project with one local source.
SeqInit ==
    /\ cfg \in {CfgLocal, CfgConflict, CfgTemplate}
    /\ lockfile \in {NoLockfile, ValidLockfile(FreshEntries(cfg.sources))}
    /\ fs \in {BaseFs, WithOldFile}
    /\ cache \in Caches
    /\ upstream \in Upstreams
    /\ call = Idle
    /\ cancelled = FALSE
    /\ pre = [fs |-> fs, lockfile |-> lockfile, cache |-> cache]
    /\ hist = <<>>
    /\ budget = MaxCalls
    /\ cres = NoCacheCall

SeqSpec == SeqInit /\ [][Next]_vars

\* The target entries ResolveTarget is given: tools, a destination, both
\* or neither, with tools the map knows and one it lacks.
TargetEntries ==
    [source : {"a", "b"},
     tools : {<<>>, <<"cursor">>, <<"cursor", "codex">>, <<"mytool">>, <<"nope">>},
     destination : {<<>>, <<"in">>, <<"out">>}]

\* One call of ResolveTarget on a tool map with or without the definition
\* of mytool.
ResolveTargetCall ==
    /\ call.kind = "target" /\ call.pc = "ready"
    /\ call' = [call EXCEPT !.pc = "done",
                            !.res = ResolveTarget(NewToolMap(call.defs), call.tgt)]
    /\ UNCHANGED <<fs, lockfile, cache, cfg, upstream, cancelled, pre, hist,
                   budget, cres>>

TargetInit ==
    /\ cfg = CfgLocal
    /\ lockfile = NoLockfile
    /\ fs = BaseFs
    /\ cache = CacheOf({})
    /\ upstream \in {up \in Upstreams : up["b"].ok}
    /\ \E tgt \in TargetEntries,
          defs \in {<<>>, <<[name |-> "mytool", destination |-> <<"out">>]>>} :
         call = [kind |-> "target", pc |-> "ready", defs |-> defs, tgt |-> tgt,
                 res |-> [ok |-> FALSE, targets |-> <<>>]]
    /\ cancelled = FALSE
    /\ pre = [fs |-> fs, lockfile |-> lockfile, cache |-> cache]
    /\ hist = <<>>
    /\ budget = 0
    /\ cres = NoCacheCall

TargetNext == ResolveTargetCall

TargetSpec == TargetInit /\ [][TargetNext]_vars

\* Names that begin with a dot.
Hidden(name) ==
    name \in {".claude", ".cline", ".codex", ".cursor", ".github", ".windsurf"}

\* LocalResolver.Resolve on the files of the disk: the path is joined to
\* the root and compared with it as text, os.Stat follows links, a file is
\* hashed under its base name, a directory is walked without following
\* links, every entry that is not a directory and not hidden is opened and
\* hashed, and a result without files is an error.  read holds the
\* paths that were opened.
LocalResolverResolve(f, projectRoot, path) ==
    LET absPath == JoinAbs(projectRoot, path)
        failed == [ok |-> FALSE, files |-> <<>>, read |-> {}]
        st == EvalSymlinks(f, absPath)
        par == EvalSymlinks(f, Dir(absPath))
        entries == {q \in DOMAIN f : /\ q # st.path /\ IsPrefix(st.path, q)
                                     /\ f[q].k # "dir" /\ ~Hidden(Last(q))}
        rel(q) == SubSeq(q, Len(st.path) + 1, Len(q))
    IN  IF path = <<>> THEN failed
        ELSE IF absPath # projectRoot /\ ~IsPrefix(projectRoot, absPath) THEN failed
        ELSE IF ~st.ok THEN failed
        ELSE IF f[st.path].k = "file"
        THEN [ok |-> TRUE,
              files |-> (<<Last(absPath)>> :> computeHash(f[st.path].c)),
              read |-> {absPath}]
        ELSE IF f[Append(par.path, Last(absPath))].k = "link" THEN failed
        ELSE IF \E q \in entries : ~ReadFile(f, q).ok THEN failed
        ELSE IF entries = {} THEN failed
        ELSE [ok |-> TRUE,
              files |-> [r \in {rel(q) : q \in entries} |->
                            computeHash(ReadFile(f, st.path \o r).c)],
              read |-> {absPath \o rel(q) : q \in entries}]

\* The paths a local source is given: inside the root, through a link,
\* and out of the root with "..".
SourcePaths ==
    {<<>>, <<"in">>, <<"in", "f">>, <<"lnk">>, <<"lnk", "f">>, <<"ovr">>,
     <<"out">>, <<".cursor">>, <<"..", "ext">>, <<"in", "..", "..", "ext", "f">>}

LocalResolveCall ==
    /\ call.kind = "resolve" /\ call.pc = "ready"
    /\ call' = [call EXCEPT !.pc = "done",
                            !.res = LocalResolverResolve(fs, ProjectRoot, call.path)]
    /\ UNCHANGED <<fs, lockfile, cache, cfg, upstream, cancelled, pre, hist,
                   budget, cres>>

ResolveInit ==
    /\ cfg = CfgLocal
    /\ lockfile = NoLockfile
    /\ fs \in FileSystems
    /\ cache = CacheOf({})
    /\ upstream \in {up \in Upstreams : up["b"].ok}
    /\ \E path \in SourcePaths :
         call = [kind |-> "resolve", pc |-> "ready", path |-> path,
                 res |-> [ok |-> FALSE, files |-> <<>>, read |-> {}]]
    /\ cancelled = FALSE
    /\ pre = [fs |-> fs, lockfile |-> lockfile, cache |-> cache]
    /\ hist = <<>>
    /\ budget = 0
    /\ cres = NoCacheCall

ResolveNext == LocalResolveCall

ResolveSpec == ResolveInit /\ [][ResolveNext]_vars

\* One call of LoadHierarchical, for every disk and every option.
LoadInit ==
    /\ cfg = CfgLocal
    /\ lockfile = NoLockfile
    /\ fs = BaseFs
    /\ cache = CacheOf({})
    /\ upstream \in {up \in Upstreams : up["b"].ok}
    /\ \E disk \in Disks, opts \in LoadOptions :
         call = [kind |-> "load", pc |-> "ready", disk |-> disk, opts |-> opts,
                 res |-> [ok |-> FALSE, merged |-> 0, cfg |-> MissingFile]]
    /\ cancelled = FALSE
    /\ pre = [fs |-> fs, lockfile |-> lockfile, cache |-> cache]
    /\ hist = <<>>
    /\ budget = 0
    /\ cres = NoCacheCall

LoadNext == LoadCall

LoadSpec == LoadInit /\ [][LoadNext]_vars

CacheInit ==
    /\ cfg = CfgLocal
    /\ lockfile = NoLockfile
    /\ fs = BaseFs
    /\ cache \in {CacheOf({}), CacheOf({<<"x">>})}
    /\ upstream \in {u \in Upstreams : u["b"].ok}
    /\ call = Idle
    /\ cancelled = FALSE
    /\ pre = [fs |-> fs, lockfile |-> lockfile, cache |-> cache]
    /\ hist = <<>>
    /\ budget = 0
    /\ cres = NoCacheCall

CacheNext ==
    \/ \E h \in Hashes, c \in Contents : CachePutCall(h, c)
    \/ \E h \in Hashes : CacheGetCall(h)
    \/ \E h \in Hashes, c \in Contents : CacheCorrupt(h, c)

CacheSpec == CacheInit /\ [][CacheNext]_vars

\* Every assignment of Put and Get to the processes, on an empty cache.
ConcInit ==
    /\ cfg = CfgLocal
    /\ lockfile = NoLockfile
    /\ fs = BaseFs
    /\ cache = CacheOf({})
    /\ upstream \in {u \in Upstreams : u["a"].ok /\ u["b"].ok}
    /\ \E role \in [ConcProcs -> {"put", "get"}] :
         call = [kind |-> "conc", role |-> role,
                 pc |-> [p \in ConcProcs |-> "start"],
                 entry |-> 0,
                 inode |-> [p \in ConcProcs |-> <<>>],
                 fd |-> [p \in ConcProcs |-> 0],
                 data |-> [p \in ConcProcs |-> <<>>],
                 res |-> [p \in ConcProcs |-> "none"]]
    /\ cancelled = FALSE
    /\ pre = [fs |-> fs, lockfile |-> lockfile, cache |-> cache]
    /\ hist = <<>>
    /\ budget = 0
    /\ cres = NoCacheCall

ConcNext ==
    \E p \in ConcProcs :
        \/ PutStat(p)
        \/ PutCreate(p)
        \/ PutWrite(p)
        \/ PutRename(p)
        \/ GetOpen(p)
        \/ GetRead(p)
        \/ GetVerify(p)

ConcSpec == ConcInit /\ [][ConcNext]_vars

\* The file an earlier run left at the object path: bytes that do not hash
\* to the key.
OldInode == MaxProcs + 1

OldBytes == <<"x">>

\* The same callers on a cache whose entry at the key is damaged.
HealInit ==
    /\ cfg = CfgLocal
    /\ lockfile = NoLockfile
    /\ fs = BaseFs
    /\ cache = (ConcKey :> OldBytes)
    /\ upstream \in {u \in Upstreams : u["a"].ok /\ u["b"].ok}
    /\ \E role \in [ConcProcs -> {"put", "get"}] :
         call = [kind |-> "conc", role |-> role,
                 pc |-> [p \in ConcProcs |-> "start"],
                 entry |-> OldInode,
                 inode |-> [p \in ConcProcs \cup {OldInode} |->
                               IF p = OldInode THEN OldBytes ELSE <<>>],
                 fd |-> [p \in ConcProcs |-> 0],
                 data |-> [p \in ConcProcs |-> <<>>],
                 res |-> [p \in ConcProcs |-> "none"]]
    /\ cancelled = FALSE
    /\ pre = [fs |-> fs, lockfile |-> lockfile, cache |-> cache]
    /\ hist = <<>>
    /\ budget = 0
    /\ cres = NoCacheCall

HealSpec == HealInit /\ [][ConcNext]_vars

\* A Save of each lockfile over each lockfile, with and without a temp
\* file left behind by an earlier failed Save.
SaveInit ==
    /\ cfg = CfgMixed
    /\ lockfile \in Lockfiles(cfg)
    /\ fs = BaseFs
    /\ cache = CacheOf({})
    /\ upstream \in Upstreams
    /\ \E lf \in {l \in Lockfiles(cfg) : l.state = "valid"} \cup {ValidLockfile(<<>>)},
          tmp \in {NoTmp, [exists |-> TRUE, data |-> <<[version |-> 1]>>]} :
         call = SaveCall(lf, tmp)
    /\ cancelled = FALSE
    /\ pre = [fs |-> fs, lockfile |-> lockfile, cache |-> cache]
    /\ hist = <<>>
    /\ budget = 0
    /\ cres = NoCacheCall

SaveNext ==
    \/ SaveMarshal
    \/ SaveOpenTmp
    \/ SaveWritePiece
    \/ SaveRename
    \/ SaveFail
    \/ SaveReader

SaveSpec == SaveInit /\ [][SaveNext]_vars

\* The relative paths handed to SafeWrite.
WriteRelPaths ==
    {<<"in", "f">>, <<"in", "g">>, <<"new", "sub", "f">>, <<"lnk", "f">>,
     <<"ovr">>, <<"in", "..", "ovr">>, <<"..", "ext", "f">>,
     <<"in", "..", "..", "ext", "f">>, <<".codex", "f">>, <<>>}

\* One SafeWrite on every filesystem, the project root given by its own
\* name or by the link proj that leads to it.
WriteInit ==
    /\ cfg = CfgLocal
    /\ lockfile = NoLockfile
    /\ fs \in {FsPut(f, <<"proj">>, LinkNode(ProjectRoot)) : f \in FileSystems}
    /\ cache = CacheOf({})
    /\ upstream \in Upstreams
    /\ \E root \in {ProjectRoot, <<"proj">>}, rel \in WriteRelPaths,
          content \in {<<"n">>, <<"q", "m">>} :
         call = SafeWriteCall(root, rel, content)
    /\ cancelled = FALSE
    /\ pre = [fs |-> fs, lockfile |-> lockfile, cache |-> cache]
    /\ hist = <<>>
    /\ budget = 0
    /\ cres = NoCacheCall

WriteNext ==
    \/ SwValidate
    \/ SwMkdirAll
    \/ SwCreateTemp
    \/ SwWritePiece
    \/ SwSeal
    \/ SwRename
    \/ SwFail

WriteSpec == WriteInit /\ [][WriteNext]_vars

-----------------------------------------------------------------------------
(* Properties *)

SyncDone == call.kind = "sync" /\ call.pc = "done"

UpdateDone == call.kind = "update" /\ call.pc = "done"

DestAbs(op) == JoinAbs(ProjectRoot, op.destPath)

\* C1: when a Sync that started writing returns failure because a write
\* failed, every destination file reads as it did before the call: the
\* same bytes if it existed, unreadable if it did not.
C1_RollbackRestoresDestinations ==
    (SyncDone /\ call.rolledBack) =>
        \A i \in 1..Len(call.ops) :
            ReadFile(fs, DestAbs(call.ops[i])) = ReadFile(pre.fs, DestAbs(call.ops[i]))

\* A failed Sync that had written a file that existed before and one that
\* did not.
C1_Witness ==
    /\ SyncDone /\ call.rolledBack
    /\ \E i, j \in 1..Len(call.writtenPaths) :
          /\ call.snaps[call.writtenPaths[i]].existed
          /\ ~call.snaps[call.writtenPaths[j]].existed

\* The overrides whose target is the base name of a path, applied to bytes.
OverriddenBytes(c, base) ==
    LET mine(ov) == ov.target = base IN
    OverrideApply(pre.fs, (base :> c), SelectSeq(cfg.overrides, mine))

\* The bytes the lockfile and the configuration promise for an operation:
\* for a locked file of its source that a target of the source maps to its
\* path, the content with the locked hash after transforms and overrides.
PromisedBytes(op) ==
    LET lf == loadLockfile(pre.lockfile)
        rt == resolveAllTargets(NewToolMap(cfg.tool_definitions), cfg)
    IN  {OverriddenBytes(
            applyTransforms((r :> lf.sources[i].files[r].sha),
                            TransformsOf(cfg.transforms, op.source),
                            cfg.variables).files[r],
            Base(op.destPath)).files[Base(op.destPath)] :
         <<i, r>> \in {x \in UNION {{<<k, q>> : q \in DOMAIN lf.sources[k].files} :
                                      k \in 1..Len(lf.sources)} :
                         /\ lf.sources[x[1]].name = op.source
                         /\ \E t \in 1..Len(rt.map[op.source]) :
                               op.destPath = JoinRel(rt.map[op.source][t].destination, x[2])}}

\* C2: after a successful Sync that is not a dry run, every file it wrote
\* was given the bytes with the locked hash, transformed and overridden.
C2_WrittenBytesAreLocked ==
    (SyncDone /\ ~call.dryRun /\ ~call.err) =>
        \A k \in 1..Len(call.wlog) :
            call.ops[call.wlog[k]].content \in PromisedBytes(call.ops[call.wlog[k]])

\* The sources of every destination path of the operations.
DestinationsOf(ops) ==
    [d \in {ops[i].destPath : i \in 1..Len(ops)} |->
        {ops[i].source : i \in {k \in 1..Len(ops) : ops[k].destPath = d}}]

\* The destination paths DetectConflicts reports.
ConflictPaths(ops) ==
    {d \in DOMAIN DestinationsOf(ops) :
        DetectConflicts((d :> DestinationsOf(ops)[d]), cfg.overrides)}

\* C3: when two locked sources map a file to the same path and no
\* override targets its base name, Sync fails and does not write the path.
C3_ConflictFails ==
    SyncDone =>
        \A d \in ConflictPaths(call.ops) :
            /\ call.err
            /\ \A k \in 1..Len(call.wlog) : call.ops[call.wlog[k]].destPath # d

\* The files of a local source as they are now.
SourceFiles(n) == upstream[n].commits[upstream[n].head]

\* C4: after an Update of everything that succeeded and a Sync that
\* succeeded, every destination of a local source holds the bytes of the
\* source file, whatever the cache held at first.
C4_UpdateThenSyncCopies ==
    (/\ Len(hist) = 1 /\ hist[1].kind = "update"
     /\ ~hist[1].dryRun /\ hist[1].whole /\ ~hist[1].err
     /\ SyncDone /\ ~call.dryRun /\ ~call.err) =>
        \A s \in 1..Len(cfg.sources) :
            cfg.sources[s].type = "local" =>
                LET n == cfg.sources[s].name
                    tgts == resolveAllTargets(NewToolMap(cfg.tool_definitions), cfg).map[n]
                IN  \A t \in 1..Len(tgts), r \in DOMAIN SourceFiles(n) :
                        ReadFile(fs, JoinAbs(ProjectRoot, JoinRel(tgts[t].destination, r)))
                          = [ok |-> TRUE, c |-> SourceFiles(n)[r]]

\* C5: no step of a Sync call, dry run or not, successful or rolled back,
\* changes the lockfile.
C5_SyncKeepsLockfile ==
    [][call'.kind = "sync" => lockfile' = lockfile]_vars

\* A Sync on an existing lockfile that wrote files, failed and rolled
\* back, with the lockfile it started with.
C5_Witness ==
    /\ SyncDone /\ ~call.dryRun
    /\ Len(call.wlog) > 0 /\ call.rolledBack
    /\ lockfile.state = "valid" /\ lockfile = pre.lockfile

\* The entries of a lockfile for a source name.
EntriesOf(lf, n) ==
    {<<i, lf.sources[i]>> : i \in {k \in 1..Len(lf.sources) : lf.sources[k].name = n}}

\* The sources this Update reports as resolved.
ResolvedNow == {call.updated[k].name : k \in 1..Len(call.updated)}

\* C6: in the lockfile an Update that is not a dry run leaves, every
\* configured source has its fresh record if it was selected and resolved,
\* else its previous entry if it had one, else no entry.
C6_LockfileMerge ==
    (UpdateDone /\ ~call.dryRun) =>
        /\ lockfile.state = "valid"
        /\ \A s \in 1..Len(cfg.sources) :
            LET src == cfg.sources[s]
                n == src.name
                old == loadLockfile(pre.lockfile)
                selected == call.names = <<>> \/ n \in SeqToSet(call.names)
                now == {e[2] : e \in EntriesOf(lockfile, n)}
            IN  /\ Cardinality(EntriesOf(lockfile, n)) <= 1
                /\ IF selected /\ n \in ResolvedNow
                   THEN now = {resolvedToLocked(src,
                                  ResolverResolve(src, upstream[n], FALSE))}
                   ELSE now = {e[2] : e \in EntriesOf(old, n)}

\* An Update in which one source resolved and another, locked before,
\* failed.
C6_Witness ==
    /\ UpdateDone /\ ~call.dryRun
    /\ Len(call.updated) > 0 /\ Len(call.failed) > 0
    /\ \E k \in 1..Len(call.failed) :
          EntriesOf(loadLockfile(pre.lockfile), call.failed[k]) # {}
    /\ lockfile # pre.lockfile

\* C7: an Update cancelled between two source resolutions leaves the
\* lockfile as it was before the call.
C7_CancelledUpdateKeepsLockfile ==
    (UpdateDone /\ call.cancelAt >= 1 /\ call.cancelAt < Len(call.todo)) =>
        lockfile = pre.lockfile

\* C8: a Sync cancelled after it wrote a file and before its last round
\* writes nothing more, restores what it wrote and returns failure.
C8_CancelledSyncRollsBack ==
    (/\ SyncDone /\ ~call.dryRun /\ call.cancelAt >= 1
     /\ \E k \in 1..Len(call.wlog) : call.wlog[k] <= call.cancelAt) =>
        /\ \A k \in 1..Len(call.wlog) : call.wlog[k] <= call.cancelAt
        /\ \A i \in 1..Len(call.ops) :
              ReadFile(fs, DestAbs(call.ops[i])) = ReadFile(pre.fs, DestAbs(call.ops[i]))
        /\ call.err

\* Everything that is not below the project root.
Outside(f) ==
    [p \in {q \in DOMAIN f : ~IsPrefix(ProjectRoot, q)} |-> f[p]]

\* C9: no step (of Sync, of its rollback, of Prune) creates, overwrites or
\* removes anything whose real location is outside the project root.
C9_NothingOutsideChanges ==
    [][Outside(fs') = Outside(fs)]_vars

\* A Sync that wrote a file, then met a path that leaves the project root
\* through a link or through "..", and rolled back.
C9_Witness ==
    /\ SyncDone /\ call.rolledBack
    /\ Len(call.writtenPaths) > 0
    /\ \E i \in 1..Len(call.ops) :
          /\ ~ValidatePath(fs, ProjectRoot, call.ops[i].destPath).ok
          /\ \E q \in DOMAIN fs : fs[q].k = "link" /\ ~IsPrefix(ProjectRoot, fs[q].to)

\* C10: a Get reports found only with bytes that hash to the key, and when
\* it has returned the key has no entry or an entry that hashes to it.
C10_GetVerifies ==
    cres.op = "get" =>
        /\ cres.ok => computeHash(cres.c) = cres.h
        /\ cres.h \notin DOMAIN cache \/ computeHash(cache[cres.h]) = cres.h

\* A Get of a key whose entry had been corrupted: a miss, and the entry
\* is gone.
C10_Witness ==
    /\ cres.op = "get" /\ cres.had /\ ~cres.ok
    /\ cres.h \notin DOMAIN cache

\* C11: when Put(h, b) and Get(h) calls run concurrently on a cache that has
\* no entry at h, every Put that has returned succeeded, every Get that has
\* returned reported a miss or the whole of b, and once every call has
\* returned (at least one of them a Put) the entry at h is exactly b.
C11_ConcurrentPutGet ==
    call.kind = "conc" =>
        /\ \A p \in ConcProcs :
             call.pc[p] = "done" =>
                IF call.role[p] = "put" THEN call.res[p] = "ok"
                ELSE \/ call.res[p] = "miss"
                     \/ call.res[p] = "found" /\ call.data[p] = ConcBytes
        /\ ( /\ \A p \in ConcProcs : call.pc[p] = "done"
             /\ \E p \in ConcProcs : call.role[p] = "put" )
           => cache = (ConcKey :> ConcBytes)

\* Two Puts both wrote their own temp file (neither saw the other's entry),
\* a Get found the bytes, and every call has returned.
C11_Witness ==
    /\ call.kind = "conc"
    /\ \A p \in ConcProcs : call.pc[p] = "done"
    /\ \E p, q \in ConcProcs :
         /\ p # q
         /\ call.role[p] = "put" /\ call.role[q] = "put"
         /\ call.inode[p] = ConcBytes /\ call.inode[q] = ConcBytes
    /\ \E g \in ConcProcs : call.role[g] = "get" /\ call.res[g] = "found"

\* C12: whatever the cache held before, once Put(h, b) has returned success a
\* Get(h) finds the entry and returns exactly b.
C12_PutThenGet ==
    (cres.op = "put" /\ cres.ok) =>
        /\ CacheGet(cache, cres.h).found
        /\ CacheGet(cache, cres.h).c = cres.c

\* The destinations the configured targets and the lockfile entries of
\* their sources call for, each with the hash the lockfile records.
ExpectedOnDisk ==
    LET rt == resolveAllTargets(NewToolMap(cfg.tool_definitions), cfg) IN
    CheckVisits(loadLockfile(lockfile), rt.map)

\* C13: a Check that returns a result reports Clean exactly when every
\* expected destination is a readable file whose SHA-256 is the one the
\* lockfile records.
C13_CleanIffAllMatch ==
    (call.kind = "check" /\ call.pc = "done" /\ ~call.err) =>
        (call.clean <=>
            \A v \in ExpectedOnDisk :
                LET rd == ReadFile(fs, JoinAbs(ProjectRoot, v.destPath)) IN
                rd.ok /\ computeHash(rd.c) = v.sha)

\* C14: after a Prune that was not a dry run and returned no error, every
\* entry of the lockfile names a source of the current configuration.
C14_PruneDropsOrphanEntries ==
    (call.kind = "prune" /\ call.pc = "done" /\ ~call.dryRun /\ ~call.err) =>
        \A i \in 1..Len(lockfile.sources) :
            \E j \in 1..Len(cfg.sources) :
                cfg.sources[j].name = lockfile.sources[i].name

\* C15: a call made while the lockfile exists but cannot be loaded ends with
\* an error and leaves the lockfile as it was.
C15_BrokenLockfileIsAnError ==
    (Finished /\ pre.lockfile.state = "corrupt") =>
        call.err /\ lockfile = pre.lockfile

\* C16: while a Save runs and after it failed, the lockfile path holds what
\* it held before the call; it holds the whole new lockfile once Save
\* returned success; and a reader of the path gets the whole old or the
\* whole new lockfile.
C16_SaveIsAtomic ==
    call.kind = "save" =>
        /\ call.pc # "done" => lockfile = pre.lockfile
        /\ call.pc = "done" => lockfile = call.newLock
        /\ call.readAt # "none" => call.read \in {pre.lockfile, call.newLock}

\* The write of the temp file failed part way, after a reader loaded the
\* lockfile path during that write.
C16_Witness ==
    /\ call.kind = "save" /\ call.pc = "failed" /\ call.failedAt = "write"
    /\ call.readAt = "write"
    /\ call.tmp.exists
    /\ Len(call.tmp.data) > 0 /\ Len(call.tmp.data) < Len(call.data)
    /\ call.newLock # pre.lockfile

\* What is at the destination of the running SafeWrite in filesystem f.
DestNode(f) ==
    LET r == EvalSymlinks(f, JoinAbs(call.root, call.rel)) IN
    IF r.ok THEN f[r.path] ELSE [k |-> "absent", c |-> <<>>, to |-> <<>>]

\* C17: when SafeWrite has returned failure, at whichever step, the
\* destination is absent or is what it was before the call.
C17_FailedWriteKeepsDestination ==
    (call.kind = "write" /\ call.pc = "failed") =>
        \/ DestNode(fs).k = "absent"
        \/ DestNode(fs) = DestNode(pre.fs)

\* The rename failed by the environment, after the whole content was in the
\* temp file, over a destination that held other bytes.
C17_Witness ==
    /\ call.kind = "write" /\ call.pc = "failed" /\ call.failedAt = "rename"
    /\ DestNode(pre.fs).k = "file"
    /\ DestNode(pre.fs).c # call.content
    /\ DestNode(fs) = DestNode(pre.fs)

\* C18: when ValidatePath succeeds, the path it returns is the real path of
\* the project root or continues it by at least one component.
C18_ValidatedPathIsUnderRoot ==
    (call.kind = "write" /\ call.validated) =>
        LET realRoot == EvalSymlinks(pre.fs, call.root).path IN
        \/ call.resolved = realRoot
        \/ /\ Len(call.resolved) > Len(realRoot)
           /\ SubSeq(call.resolved, 1, Len(realRoot)) = realRoot

\* ValidatePath succeeded for a root given through a link and a path that
\* goes through a link inside the root.
C18_Witness ==
    /\ call.kind = "write" /\ call.validated
    /\ call.root = <<"proj">>
    /\ call.rel = <<"lnk", "f">>
    /\ call.resolved = <<"root", "in", "f">>

\* The names the running Update was asked for, as given: the names of the
\* call, or those of every configured source.
Requests ==
    IF Len(call.names) > 0 THEN call.names
    ELSE [i \in 1..Len(cfg.sources) |-> cfg.sources[i].name]

UpdatedNames == [i \in 1..Len(call.updated) |-> call.updated[i].name]

Occurrences(s, n) == Cardinality({i \in 1..Len(s) : s[i] = n})

RECURSIVE IsSubsequence(_, _)
IsSubsequence(s, t) ==
    IF s = <<>> THEN TRUE
    ELSE IF t = <<>> THEN FALSE
    ELSE IF Head(s) = Head(t) THEN IsSubsequence(Tail(s), Tail(t))
    ELSE IsSubsequence(s, Tail(t))

\* C20: the entries of a lockfile that Update wrote name sources of the
\* configuration, each at most once, in the order of the configuration.
C20_LockfileFollowsConfig ==
    (UpdateDone /\ call.saved) =>
        LET locked == [i \in 1..Len(lockfile.sources) |-> lockfile.sources[i].name]
            configured == [i \in 1..Len(cfg.sources) |-> cfg.sources[i].name]
        IN  /\ IsSubsequence(locked, configured)
            /\ \A i, j \in 1..Len(locked) : locked[i] = locked[j] => i = j

\* Update wrote a lockfile with fewer entries than the lockfile had, which
\* held an entry for a source the configuration no longer defines.
C20_Witness ==
    /\ UpdateDone /\ call.saved
    /\ \E i \in 1..Len(pre.lockfile.sources) :
         \A j \in 1..Len(cfg.sources) :
            cfg.sources[j].name # pre.lockfile.sources[i].name
    /\ Len(lockfile.sources) >= 1
    /\ Len(lockfile.sources) < Len(pre.lockfile.sources)

\* C21: during and after an Update in dry-run mode the lockfile is what it
\* was before the call (absent if it was absent), and the result carries no
\* lockfile, whether the resolutions succeeded or failed.
C21_DryRunUpdateKeepsLockfile ==
    (call.kind = "update" /\ call.dryRun) =>
        /\ lockfile = pre.lockfile
        /\ ~call.saved
        /\ call.newLock = <<>>

\* A dry-run Update without a lockfile ended with one source resolved and
\* another one failed.
C21_Witness ==
    /\ UpdateDone /\ call.dryRun
    /\ pre.lockfile.state = "absent"
    /\ Len(call.updated) > 0
    /\ Len(call.failed) > 0

\* C22: during and after a Sync in dry-run mode the filesystem is what it
\* was before the call: no destination is created, modified or removed.
C22_DryRunSyncKeepsFiles ==
    (call.kind = "sync" /\ call.dryRun) => fs = pre.fs

\* A dry-run Sync reported a file it would create and a file it would
\* modify.
C22_Witness ==
    /\ SyncDone /\ call.dryRun /\ ~call.err
    /\ \E i \in 1..Len(call.written) : call.written[i].action = "new"
    /\ \E i \in 1..Len(call.written) : call.written[i].action = "modified"
    /\ fs = pre.fs

\* C23: after a Prune in dry-run mode the filesystem is what it was before
\* the call: nothing was removed.
C23_DryRunPruneKeepsFiles ==
    (call.kind = "prune" /\ call.dryRun) => fs = pre.fs

\* A dry-run Prune ended while files of a source that left the
\* configuration are on disk under a tool directory.
C23_Witness ==
    /\ call.kind = "prune" /\ call.pc = "done" /\ call.dryRun /\ ~call.err
    /\ \E p \in PruneCandidates(fs, PrunePaths(loadLockfile(lockfile), cfg,
                                               NewToolMap(cfg.tool_definitions))) :
         SafeRemove(fs, ProjectRoot, p).ok
    /\ fs = pre.fs

\* The destinations the lockfile and the targets call for from the locked
\* source ls: every file of its entry under every resolved target.
WantedFrom(ls) ==
    LET rt == resolveAllTargets(NewToolMap(cfg.tool_definitions), cfg) IN
    IF ~rt.ok \/ ls.name \notin DOMAIN rt.map THEN {}
    ELSE {JoinRel(rt.map[ls.name][i].destination, r) :
             i \in 1..Len(rt.map[ls.name]), r \in DOMAIN ls.files}

C25_ReadOnlyCalls ==
    (call.kind \in {"check", "verify", "status"} /\ Finished) =>
        /\ lockfile = pre.lockfile
        /\ fs = pre.fs
        /\ cache = pre.cache

\* A Verify that found a changed source and a Status that found a drifted
\* one are both reachable; this one is the Verify.
C25_Witness ==
    /\ call.kind = "verify" /\ Finished
    /\ \E i \in 1..Len(call.report) : call.report[i] = "changed"
    /\ \E i \in 1..Len(call.report) : call.report[i] = "uptodate"
    /\ lockfile.state = "valid" /\ lockfile.sources # <<>>
    /\ cache # CacheOf({})
    /\ lockfile = pre.lockfile /\ fs = pre.fs /\ cache = pre.cache

\* The target files of a locked source: every file of its lockfile entry
\* under every destination of its targets, with the locked hash.
TargetFilesOf(n) ==
    {v \in ExpectedOnDisk :
        \E i \in 1..Len(cfg.targets), r \in DOMAIN LockedByName(lockfile.sources)[n].files :
            LET t == ResolveTarget(NewToolMap(cfg.tool_definitions), cfg.targets[i]) IN
            /\ cfg.targets[i].source = n
            /\ \E j \in 1..Len(t.targets) :
                  v = [destPath |-> JoinRel(t.targets[j].destination, r),
                       sha |-> LockedByName(lockfile.sources)[n].files[r]]}

\* The state the description gives a source: pending without a lockfile
\* entry, else missing when a target file is not there to be read, else
\* drifted when one hashes to something else, else synced.
ExpectedState(n) ==
    IF n \notin DOMAIN LockedByName(lockfile.sources) THEN "pending"
    ELSE IF \E v \in TargetFilesOf(n) :
               ReadFileErr(fs, JoinAbs(ProjectRoot, v.destPath)) # "none"
    THEN "missing"
    ELSE IF \E v \in TargetFilesOf(n) :
               computeHash(ReadFile(fs, JoinAbs(ProjectRoot, v.destPath)).c) # v.sha
    THEN "drifted"
    ELSE "synced"

\* C28: a Status that returns reports, for every configured source it was
\* asked about, pending iff the source has no lockfile entry, otherwise
\* missing iff a target file is absent, otherwise drifted iff a target
\* file's hash differs from the lockfile, otherwise synced.
C28_StatusStates ==
    (call.kind = "status" /\ Finished /\ ~call.err) =>
        \A i \in 1..Len(call.names) :
            (\E k \in 1..Len(cfg.sources) : cfg.sources[k].name = call.names[i])
                => call.report[i] = ExpectedState(call.names[i])

C28_Witness ==
    /\ call.kind = "status" /\ Finished /\ ~call.err
    /\ \E i \in 1..Len(call.names) :
          /\ \E k \in 1..Len(cfg.sources) : cfg.sources[k].name = call.names[i]
          /\ call.report[i] = "drifted"
          /\ Cardinality(TargetFilesOf(call.names[i])) > 1

\* C29: in a finished Verify, a locked git source that resolved is listed
\* as changed exactly when the resolved commit differs from the locked
\* one, a locked url or local source that resolved exactly when the number
\* of files differs or some file's hash differs, and every other one is
\* listed as up to date.
C29_VerifyCriteria ==
    (call.kind = "verify" /\ Finished) =>
        \A i \in 1..Len(call.names) :
            LET n == call.names[i]
                configByName == LockedByName(cfg.sources)
                lockedByName == LockedByName(loadLockfile(lockfile).sources)
            IN  (/\ n \in DOMAIN configByName
                 /\ n \in DOMAIN lockedByName
                 /\ ResolverResolve(configByName[n], upstream[n], FALSE).ok) =>
                LET ls == lockedByName[n]
                    resolved == ResolverResolve(configByName[n], upstream[n], FALSE)
                    differs ==
                        IF ls.type = "git" THEN resolved.commit # ls.commit
                        ELSE \/ Cardinality(DOMAIN ls.files)
                                    # Cardinality(DOMAIN resolved.files)
                             \/ \E r \in DOMAIN ls.files :
                                   \/ r \notin DOMAIN resolved.files
                                   \/ ls.files[r] # resolved.files[r]
                IN  call.report[i] = IF differs THEN "changed" ELSE "uptodate"

\* Every sorted operation list Sync can reach its write loop with from the
\* given files, lockfile and cache: one per iteration order of the file
\* maps and per tie-break of the sort.
SyncOrders(f, lf, ch) ==
    LET rt == resolveAllTargets(NewToolMap(cfg.tool_definitions), cfg) IN
    IF ~rt.ok THEN {}
    ELSE UNION {
        LET ov == ApplyOverridesToOps(f, plan.ops, cfg.overrides) IN
        IF ~ov.ok THEN {} ELSE SortedOps(ov.ops)
        : plan \in Gather(loadLockfile(lf).sources,
                          [ops |-> <<>>, cache |-> ch, errors |-> <<>>],
                          rt.map, cfg, upstream, FALSE)}

\* C26: the files a finished Sync leaves are the files every other Sync
\* from the same lockfile, configuration, cache, override files and
\* destination state leaves, whichever order the file maps were iterated
\* in and whichever way the sort placed equal destination paths.
C26_SyncIsDeterministic ==
    (SyncDone /\ ~call.dryRun /\ ~call.nilres /\ call.cancelAt = -1) =>
        \A ops \in SyncOrders(pre.fs, pre.lockfile, pre.cache) :
            WriteLoop(pre.fs, ops, 1, <<>>, Snapshots(pre.fs, ops)) = fs

\* C27: a Sync that runs right after a Sync that succeeded, with the
\* lockfile, configuration, sources and override files as they were,
\* writes nothing: Written is empty and every operation is in Skipped as
\* unchanged.
C27_SecondSyncWritesNothing ==
    (/\ Len(hist) = 1 /\ hist[1].kind = "sync"
     /\ ~hist[1].dryRun /\ ~hist[1].err /\ hist[1].whole
     /\ SyncDone /\ ~call.dryRun /\ call.cancelAt = -1) =>
        /\ ~call.err
        /\ call.written = <<>>
        /\ call.skipped = [i \in 1..Len(call.ops) |->
                              [path |-> call.ops[i].destPath, action |-> "unchanged"]]

\* C30: whenever nothing is at the project path, hierarchical loading
\* fails, for every system and user path, those that name the project
\* path included.
C30_MissingProjectConfigFails ==
    (/\ call.kind = "load" /\ call.pc = "done"
     /\ call.disk[Abs(call.opts.ProjectPath)] = MissingFile) =>
        ~call.res.ok

\* The configurations a hierarchical load read, lowest layer first.
LoadedLayers ==
    SelectSeq([i \in 1..Len(DiscoverPaths(call.opts)) |->
                  Parse(call.disk, DiscoverPaths(call.opts)[i].Path)],
              LAMBDA parsed : parsed.err = "none")

C33_BothOrNeitherFails ==
    (/\ call.kind = "target" /\ call.pc = "done"
     /\ (call.tgt.tools # <<>>) = (call.tgt.destination # <<>>)) =>
        ~call.res.ok

\* C34: a local Resolve fails whenever the source path, with ".." and
\* links resolved, lies outside the project root, and a Resolve that
\* succeeds has opened no file whose real location is outside the root.
C34_LocalResolveStaysInRoot ==
    (call.kind = "resolve" /\ call.pc = "done") =>
        LET realRoot == EvalSymlinks(fs, ProjectRoot).path
            realSrc == EvalSymlinks(fs, JoinAbs(ProjectRoot, call.path))
        IN  /\ (realSrc.ok /\ ~IsPrefix(realRoot, realSrc.path)) => ~call.res.ok
            /\ call.res.ok =>
                  \A q \in call.res.read :
                      IsPrefix(realRoot, EvalSymlinks(fs, q).path)

OwnOverrides(ops) ==
    [i \in 1..Len(ops) |->
        [ops[i] EXCEPT !.content =
            OverriddenBytes(ops[i].content, Base(ops[i].destPath))
                .files[Base(ops[i].destPath)]]]

\* C35: in a Sync with overrides that reaches its operations, every
\* operation carries its own transformed bytes with the overrides of its
\* base name applied: a file no override targets keeps its own bytes, and
\* none takes the bytes of another file with the same base name.
C35_OverridesTouchOnlyTheirTarget ==
    (SyncDone /\ ~call.dryRun /\ cfg.overrides # <<>> /\ ~call.nilres
        /\ call.cancelAt = -1) =>
        \E plan \in Gather(loadLockfile(pre.lockfile).sources,
                           [ops |-> <<>>, cache |-> pre.cache, errors |-> <<>>],
                           resolveAllTargets(NewToolMap(cfg.tool_definitions), cfg).map,
                           cfg, upstream, FALSE) :
            call.ops \in SortedOps(OwnOverrides(plan.ops))

\* C36: a Prune removes no destination path that a source of the
\* configuration maps to through its targets and its locked files.
C36_PruneKeepsExpectedFiles ==
    (call.kind = "prune" /\ Finished /\ ~call.err) =>
        \A k \in 1..Len(call.removed) :
            call.removed[k] \notin {v.destPath : v \in ExpectedOnDisk}

\* C37: a Check that runs right after a Sync that succeeded without any
\* per-source error, with the same lockfile and configuration, reports
\* Clean, also when transforms or overrides are configured.
C37_CheckAfterSyncIsClean ==
    (/\ Len(hist) = 1 /\ hist[1].kind = "sync" /\ ~hist[1].dryRun
     /\ ~hist[1].err /\ ~hist[1].errors /\ hist[1].whole
     /\ call.kind = "check" /\ Finished) =>
        ~call.err /\ call.clean

\* C38: under any interleaving of Get and Put calls on a key, an entry whose
\* content hashes to its key is never removed: no step takes the object
\* path from holding such an entry to holding none.
C38_ValidEntryIsNeverRemoved ==
    [][(ConcKey \in DOMAIN cache /\ computeHash(cache[ConcKey]) = ConcKey)
          => ConcKey \in DOMAIN cache']_vars

\* The paths of a list of file actions.
PathsOf(actions) == {actions[k].path : k \in 1..Len(actions)}

\* C39: for the same lockfile, configuration and on-disk state, the paths a
\* dry-run Sync reports as written and the paths it reports as skipped are
\* the paths a real Sync reports as written and as skipped.
C39_DryRunReportsWhatSyncDoes ==
    (SyncDone /\ ~call.dryRun /\ ~call.err /\ ~call.nilres /\ call.cancelAt = -1) =>
        /\ PathsOf(call.written) = PathsOf(DryRunWritten(pre.fs, call.ops))
        /\ PathsOf(call.skipped) = PathsOf(DryRunSkipped(pre.fs, call.ops))

====
